---- MODULE Spec2Model ----
(***************************************************************************)
(* Window lifecycle and geometry synchronisation of the xpra X11 seamless  *)
(* server (xpra/x11/server.py): the DesktopManager, the map / configure /  *)
(* unmap packet handlers, the configure damage timers, the size            *)
(* notification timer and the focus arbiter.                               *)
(*                                                                         *)
(* A window model object is identified with its window id (ids are never   *)
(* reused).  Everything runs on one event loop, so every handler is one    *)
(* atomic action.  `out' and `last' are observation variables: what the    *)
(* last handler sent, and which handler it was.                            *)
(***************************************************************************)
EXTENDS Integers, Sequences, FiniteSets, TLC

\* ---------------------------------------------------------------- bounds
MaxWid == 2         \* window ids ever assigned in one behaviour
MaxCounter == 2     \* cap of a window's resize counter
MaxCoalesce == 2    \* cap of the count of schedule calls folded into one timer
GeomWindows == 1    \* windows admitted where the geometry protocol is explored
focus_history_maxlen == 2   \* deque(maxlen=100) of line 241, scaled down

\* ---------------------------------------------------------- input domains
Wids == 1..MaxWid
Sources == {1, 2}
Kinds == {"normal", "or", "tray"}
Rects == {<<0, 0, 1, 1>>, <<0, 0, 2, 1>>, <<2, 0, 1, 1>>}
Counters == 0..MaxCounter
NoRect == <<0, 0, 0, 0>>
None == -1

\* ------------------------------------------------------ program constants
SHARING_SYNC_SIZE == TRUE
get_root_window_size == <<2, 2>>

VARIABLES
    id_to_window,               \* registry: wid -> kind of window model
    managed,                    \* wids whose model answers is_managed()
    next_wid,                   \* last window id assigned
    models,                     \* DesktopManager._models: wid -> DesktopState
    window_sources,             \* attached viewers
    ui_driver,                  \* uuid of the UI driver, 0 when unset
    configure_damage_timers,    \* wid -> timer id
    timeouts,                   \* live timeout sources of the event loop
    snc_timer,                  \* id of the size notification timer, or 0
    last_client_configure_event,
    clamp_window_to_root,       \* CLAMP_WINDOW_TO_ROOT, fixed per run
    has_focus,
    has_grab,
    last_raised,
    running,                    \* FALSE once do_cleanup has run
    out,                        \* what the last handler sent or requested
    last,                       \* the last handler and its arguments
    chain,                      \* the run of configure_window calls being followed
    wm_state,                   \* wid -> the window-state flags that are set
    focus_history,              \* _focus_history: the deque of focus requests
    always_raise_window,        \* ALWAYS_RAISE_WINDOW, fixed per run
    root_size,                  \* root_window.get_size(): the current resolution
    xrr_screen_sizes,           \* RandR.get_xrr_screen_sizes(), in the order returned
    randr_sizes_added,          \* resolutions this server added to the backend
    randr,                      \* resolution changes are enabled
    randr_exact_size,           \* the backend accepts arbitrary new resolutions
    fake_xinerama               \* the fake Xinerama layout file is in use

vars == <<id_to_window, managed, next_wid, models, window_sources, ui_driver,
          configure_damage_timers, timeouts, snc_timer,
          last_client_configure_event, clamp_window_to_root,
          has_focus, has_grab, last_raised, running, out, last, chain, wm_state,
          focus_history, always_raise_window,
          root_size, xrr_screen_sizes, randr_sizes_added, randr,
          randr_exact_size, fake_xinerama>>

windowvars == <<id_to_window, managed, next_wid, models, window_sources, ui_driver,
                configure_damage_timers, timeouts, snc_timer,
                last_client_configure_event, clamp_window_to_root,
                has_focus, has_grab, last_raised, running, chain, wm_state,
                focus_history, always_raise_window>>
screenvars == <<root_size, xrr_screen_sizes, randr_sizes_added, randr,
                randr_exact_size, fake_xinerama>>

regvars == <<id_to_window, managed, next_wid>>
timervars == <<configure_damage_timers, timeouts, snc_timer>>
focusvars == <<has_focus, has_grab, last_raised, focus_history, always_raise_window>>

\* ------------------------------------------------------------ observation
Msg(type, to, wid, geom, counter) ==
    [type |-> type, to |-> to, wid |-> wid, geom |-> geom, counter |-> counter]

Broadcast(type, wid, geom, counter) ==
    {Msg(type, s, wid, geom, counter) : s \in window_sources}

NoOp ==
    [op |-> "init", wid |-> 0, src |-> 0, rect |-> NoRect, rc |-> 0,
     skip |-> FALSE, dm |-> FALSE, was_shown |-> FALSE, err |-> FALSE, n |-> 0,
     pre |-> 0, after_unmap |-> FALSE, state |-> << >>, changes |-> {},
     sws |-> FALSE, branch |-> FALSE, packet |-> NoRect, election |-> FALSE]

NoChain == [wid |-> 0, rc |-> 0, applied |-> NoRect, len |-> 0]

Op(name, wid, src) == [NoOp EXCEPT !.op = name, !.wid = wid, !.src = src]

\* --------------------------------------------------------- DesktopManager
DesktopState(geom) == [geom |-> geom, resize_counter |-> 0, shown |-> FALSE]

add_window(m, model, geom) ==
    [w \in DOMAIN m \cup {model} |-> IF w = model THEN DesktopState(geom) ELSE m[w]]

window_geometry(m, model) == m[model].geom

update_window_geometry(m, model, geom) == [m EXCEPT ![model].geom = geom]

\* get_resize_counter answering without storing the new value
get_resize_counter_forgets(m, window, inc) == m

\* returns the models after the bump; the new value is their resize_counter
get_resize_counter(m, window, inc) ==
    [m EXCEPT ![window].resize_counter = m[window].resize_counter + inc]

show_window(m, model) == [m EXCEPT ![model].shown = TRUE]

visible(m, model) == m[model].shown

is_shown(m, model) ==
    IF id_to_window[model] \in {"or", "tray"} THEN TRUE ELSE m[model].shown

\* configure_window without the stale acknowledgement test
configure_window_no_stale_test(m, win, geom, resize_counter, owner_changed) ==
    LET model == m[win]
        update == model.geom # geom
        hidden == ~visible(m, win)
        update_geometry == update /\ ~(hidden /\ owner_changed)
    IN  [models |-> [m EXCEPT ![win] = [geom |-> IF update THEN geom ELSE model.geom,
                                        resize_counter |-> model.resize_counter,
                                        shown |-> IF hidden THEN TRUE ELSE model.shown]],
         calls |-> (IF hidden THEN {Msg("map", 0, win, NoRect, 0)} ELSE {})
                   \cup (IF update_geometry
                         THEN {Msg("recalculate", 0, win, geom, 0)}
                         ELSE {})]

\* configure_window taking a counter equal to the current one for stale
configure_window_stale_on_equal(m, win, geom, resize_counter, owner_changed) ==
    LET model == m[win]
        update == /\ model.geom # geom
                  /\ ~(resize_counter > 0 /\ resize_counter <= model.resize_counter)
        hidden == ~visible(m, win)
        update_geometry == update /\ ~(hidden /\ owner_changed)
    IN  [models |-> [m EXCEPT ![win] = [geom |-> IF update THEN geom ELSE model.geom,
                                        resize_counter |-> model.resize_counter,
                                        shown |-> IF hidden THEN TRUE ELSE model.shown]],
         calls |-> (IF hidden THEN {Msg("map", 0, win, NoRect, 0)} ELSE {})
                   \cup (IF update_geometry
                         THEN {Msg("recalculate", 0, win, geom, 0)}
                         ELSE {})]

\* configure_window returning as soon as it finds the acknowledgement stale
configure_window_stale_returns(m, win, geom, resize_counter, owner_changed) ==
    LET model == m[win]
        stale == resize_counter > 0 /\ resize_counter < model.resize_counter
        update == model.geom # geom /\ ~stale
        hidden == ~visible(m, win) /\ ~(model.geom # geom /\ stale)
        update_geometry == update /\ ~(hidden /\ owner_changed)
    IN  [models |-> [m EXCEPT ![win] = [geom |-> IF update THEN geom ELSE model.geom,
                                        resize_counter |-> model.resize_counter,
                                        shown |-> IF hidden THEN TRUE ELSE model.shown]],
         calls |-> (IF hidden THEN {Msg("map", 0, win, NoRect, 0)} ELSE {})
                   \cup (IF update_geometry
                         THEN {Msg("recalculate", 0, win, geom, 0)}
                         ELSE {})]

\* [models, calls]: the models after the call and the backend calls made
\* (win.map(), win.maybe_recalculate_geometry_for); owner_changed is what
\* win.ownership_election() answers
configure_window(m, win, geom, resize_counter, owner_changed) ==
    LET model == m[win]
        update == /\ model.geom # geom
                  /\ ~(resize_counter > 0 /\ resize_counter < model.resize_counter)
        hidden == ~visible(m, win)
        update_geometry == update /\ ~(hidden /\ owner_changed)
    IN  [models |-> [m EXCEPT ![win] = [geom |-> IF update THEN geom ELSE model.geom,
                                        resize_counter |-> model.resize_counter,
                                        shown |-> IF hidden THEN TRUE ELSE model.shown]],
         calls |-> (IF hidden THEN {Msg("map", 0, win, NoRect, 0)} ELSE {})
                   \cup (IF update_geometry
                         THEN {Msg("recalculate", 0, win, geom, 0)}
                         ELSE {})]

hide_window(m, model) == [m EXCEPT ![model].shown = FALSE]

\* _unmanaged leaving the entry in place
_unmanaged_keeps_entry(m, model) == m

_unmanaged(m, model) == [w \in DOMAIN m \ {model} |-> m[w]]

window_size(m, model) == <<m[model].geom[3], m[model].geom[4]>>

\* ------------------------------------------------------------ event loop
Max(a, b) == IF a >= b THEN a ELSE b
Min(a, b) == IF a <= b THEN a ELSE b

\* a timer id no live source and no stored reference uses
timeout_add(live) ==
    LET used == {t.id : t \in live} \cup {snc_timer}
                \cup {configure_damage_timers[w] : w \in DOMAIN configure_damage_timers}
    IN  CHOOSE i \in 1..(Cardinality(used) + 1) : i \notin used

source_remove(live, id) == {t \in live : t.id # id}

Timer(id, fn, wid, lcce, n) ==
    [id |-> id, fn |-> fn, wid |-> wid, lcce |-> lcce, n |-> n]

\* a timestamp different from every timestamp a pending timer holds: the
\* code only compares last_client_configure_event with those, and with 0
monotonic_time ==
    LET used == {t.lcce : t \in timeouts}
    IN  CHOOSE i \in 1..(Cardinality(used) + 1) : i \notin used

_lookup_window(wid) == wid \in DOMAIN id_to_window

\* -------------------------------------------------------------------- Init
InitServer ==
    /\ id_to_window = << >>
    /\ managed = {}
    /\ next_wid = 0
    /\ models = << >>
    /\ window_sources = {}
    /\ ui_driver = 0
    /\ configure_damage_timers = << >>
    /\ timeouts = {}
    /\ snc_timer = 0
    /\ last_client_configure_event = 0
    /\ has_focus = 0
    /\ has_grab = 0
    /\ last_raised = None
    /\ running = TRUE
    /\ out = {}
    /\ last = NoOp
    /\ chain = NoChain
    /\ wm_state = [w \in Wids |-> {}]
    /\ focus_history = << >>

Init ==
    /\ InitServer
    /\ clamp_window_to_root = FALSE
    /\ always_raise_window = FALSE
    /\ root_size = <<1024, 768>>
    /\ xrr_screen_sizes = <<<<1024, 768>>, <<1280, 1024>>>>
    /\ randr_sizes_added = << >>
    /\ randr = TRUE
    /\ randr_exact_size = FALSE
    /\ fake_xinerama = FALSE

\* --------------------------------------------------------- damage timers
\* schedule_configure_damage starting a timer whether or not one is pending
schedule_configure_damage_always(cdt, live, wid) ==
    LET id == timeout_add(live)
    IN  [cdt |-> [w \in DOMAIN cdt \cup {wid} |-> IF w = wid THEN id ELSE cdt[w]],
         live |-> live \cup {Timer(id, "damage", wid, 0, 1)}]

\* [cdt, live]: the timer dictionary and the live sources after the call; a
\* call that finds a timer pending is only counted in that timer
schedule_configure_damage(cdt, live, wid) ==
    IF wid \in DOMAIN cdt
    THEN [cdt |-> cdt,
          live |-> {IF t.id = cdt[wid] THEN [t EXCEPT !.n = Min(t.n + 1, MaxCoalesce)] ELSE t
                    : t \in live}]
    ELSE LET id == timeout_add(live)
         IN  [cdt |-> [w \in DOMAIN cdt \cup {wid} |-> IF w = wid THEN id ELSE cdt[w]],
              live |-> live \cup {Timer(id, "damage", wid, 0, 1)}]

\* cancel_configure_damage forgetting the timer without removing the source
cancel_configure_damage_forgets(cdt, live, wid) ==
    IF wid \in DOMAIN cdt
    THEN [cdt |-> [w \in DOMAIN cdt \ {wid} |-> cdt[w]], live |-> live]
    ELSE [cdt |-> cdt, live |-> live]

cancel_configure_damage(cdt, live, wid) ==
    IF wid \in DOMAIN cdt
    THEN [cdt |-> [w \in DOMAIN cdt \ {wid} |-> cdt[w]],
          live |-> source_remove(live, cdt[wid])]
    ELSE [cdt |-> cdt, live |-> live]

cancel_all_configure_damage(cdt, live) ==
    [cdt |-> << >>,
     live |-> {t \in live : t.id \notin {cdt[w] : w \in DOMAIN cdt}}]

\* the timer callback of schedule_configure_damage
damage(t) ==
    /\ running
    /\ t \in timeouts
    /\ t.fn = "damage"
    /\ configure_damage_timers' =
           [w \in DOMAIN configure_damage_timers \ {t.wid} |-> configure_damage_timers[w]]
    /\ timeouts' = timeouts \ {t}
    /\ out' = IF _lookup_window(t.wid) /\ t.wid \in managed
              THEN {Msg("refresh", 0, t.wid, NoRect, 0)}
              ELSE {}
    /\ last' = [Op("damage", t.wid, 0) EXCEPT !.n = t.n]
    /\ UNCHANGED <<regvars, models, window_sources, ui_driver, snc_timer,
                   last_client_configure_event, clamp_window_to_root, wm_state, focusvars, running>>

\* ------------------------------------------------------- window registry
\* the registry half of _add_new_window_common
_add_new_window_common(reg, wid, kind) ==
    [w \in DOMAIN reg \cup {wid} |-> IF w = wid THEN kind ELSE reg[w]]

_remove_window(reg, wid) == [w \in DOMAIN reg \ {wid} |-> reg[w]]

\* the wm's new-window signal: _new_window_signaled and _add_new_window
_add_new_window(geom) ==
    LET wid == next_wid + 1
    IN  /\ running
        /\ next_wid < MaxWid
        /\ next_wid' = wid
        /\ id_to_window' = _add_new_window_common(id_to_window, wid, "normal")
        /\ managed' = managed \cup {wid}
        /\ models' = add_window(models, wid, geom)
        /\ last_raised' = None
        /\ out' = Broadcast("new-window", wid, geom, 0)
        /\ last' = [Op("add", wid, 0) EXCEPT !.rect = geom]
        /\ UNCHANGED <<window_sources, ui_driver, timervars,
                       last_client_configure_event, clamp_window_to_root, wm_state, focus_history, always_raise_window, has_focus,
                       has_grab, running>>

\* a mapped override-redirect or tray window: `old' is the registered model
\* the raw window already carries (0 for none), `setup_ok' whether
\* call_setup succeeds
_add_new_or_window(kind, old, setup_ok) ==
    LET wid == next_wid + 1
        refresh_only == old # 0 /\ old \in managed
        reg1 == IF old # 0 THEN _remove_window(id_to_window, old) ELSE id_to_window
        c == IF old # 0
             THEN cancel_configure_damage(configure_damage_timers, timeouts, old)
             ELSE [cdt |-> configure_damage_timers, live |-> timeouts]
        lost == IF old # 0 THEN Broadcast("lost-window", old, NoRect, 0) ELSE {}
    IN  /\ running
        /\ kind \in {"or", "tray"}
        /\ old # 0 => (old \in DOMAIN id_to_window /\ id_to_window[old] = kind)
        /\ IF refresh_only
           THEN /\ out' = {Msg("refresh", 0, old, NoRect, 0)}
                /\ last' = Op("add", old, 0)
                /\ UNCHANGED <<regvars, timervars>>
           ELSE /\ next_wid < MaxWid
                /\ next_wid' = wid
                /\ id_to_window' = IF setup_ok
                                   THEN _add_new_window_common(reg1, wid, kind)
                                   ELSE reg1
                /\ managed' = IF setup_ok THEN managed \cup {wid} ELSE managed
                /\ configure_damage_timers' = c.cdt
                /\ timeouts' = c.live
                /\ snc_timer' = snc_timer
                /\ out' = lost \cup
                          (IF setup_ok
                           THEN Broadcast(IF kind = "tray" THEN "new-tray"
                                          ELSE "new-override-redirect", wid, NoRect, 0)
                                \cup {Msg("refresh", 0, wid, NoRect, 0)}
                           ELSE Broadcast("lost-window", wid, NoRect, 0))
                /\ last' = [Op("add", wid, 0) EXCEPT !.err = ~setup_ok]
        /\ UNCHANGED <<models, window_sources, ui_driver, last_client_configure_event,
                       clamp_window_to_root, wm_state, focusvars, running>>

\* the "unmanaged" signal of a managed window: XpraServer._lost_window and,
\* for a Normal window, DesktopManager._unmanaged
_lost_window(wid) ==
    LET c == cancel_configure_damage(configure_damage_timers, timeouts, wid)
    IN  /\ running
        /\ wid \in DOMAIN id_to_window
        /\ wid \in managed
        /\ id_to_window' = _remove_window(id_to_window, wid)
        /\ managed' = managed \ {wid}
        /\ models' = IF wid \in DOMAIN models THEN _unmanaged(models, wid) ELSE models
        /\ configure_damage_timers' = c.cdt
        /\ timeouts' = c.live
        /\ out' = Broadcast("lost-window", wid, NoRect, 0)
        /\ last' = [Op("lost", wid, 0) EXCEPT
                        !.n = IF wid \in DOMAIN configure_damage_timers THEN 1 ELSE 0,
                        !.rect = IF wid \in DOMAIN models
                                 THEN window_geometry(models, wid) ELSE NoRect]
        /\ UNCHANGED <<next_wid, window_sources, ui_driver, snc_timer,
                       last_client_configure_event, clamp_window_to_root, wm_state, focusvars, running>>

\* a registered window model stops being managed without its "unmanaged"
\* handlers having run (the state _add_new_or_window, _focus,
\* send_initial_windows and the damage callback test is_managed() for)
no_longer_managed(wid) ==
    /\ running
    /\ wid \in DOMAIN id_to_window
    /\ wid \in managed
    /\ managed' = managed \ {wid}
    /\ out' = {}
    /\ last' = Op("unmanage", wid, 0)
    /\ UNCHANGED <<id_to_window, next_wid, models, window_sources, ui_driver, timervars,
                   last_client_configure_event, clamp_window_to_root, wm_state, focusvars, running>>

\* XpraServer.do_cleanup
do_cleanup ==
    LET c == cancel_all_configure_damage(configure_damage_timers, timeouts)
    IN  /\ running
        /\ running' = FALSE
        /\ configure_damage_timers' = c.cdt
        /\ timeouts' = c.live
        /\ has_grab' = 0
        /\ out' = IF has_grab # 0 THEN {Msg("X11_ungrab", 0, 0, NoRect, 0)} ELSE {}
        /\ last' = [Op("cleanup", 0, 0) EXCEPT !.pre = has_grab]
        /\ UNCHANGED <<regvars, models, window_sources, ui_driver, snc_timer,
                       last_client_configure_event, clamp_window_to_root, wm_state, focus_history, always_raise_window,
                       has_focus, last_raised>>

\* ---------------------------------------------------------------- viewers
\* send_initial_windows leaving every window as it is
send_initial_windows_hides_nothing(m, ss, sharing) ==
    [models |-> m,
     out |-> {Msg(CASE id_to_window[w] = "tray" -> "new-tray"
                    [] id_to_window[w] = "or" -> "new-override-redirect"
                    [] OTHER -> "new-window",
                  ss, w, IF w \in DOMAIN m THEN window_geometry(m, w) ELSE NoRect, 0)
              : w \in {x \in DOMAIN id_to_window : x \in managed}}]

send_initial_windows(m, ss, sharing) ==
    LET shownow == {w \in DOMAIN id_to_window : w \in managed}
        hide == {w \in shownow : id_to_window[w] = "normal" /\ ~sharing}
        m1 == [w \in DOMAIN m |-> IF w \in hide THEN hide_window(m, w)[w] ELSE m[w]]
    IN  [models |-> m1,
         out |-> {Msg(CASE id_to_window[w] = "tray" -> "new-tray"
                        [] id_to_window[w] = "or" -> "new-override-redirect"
                        [] OTHER -> "new-window",
                      ss, w, IF w \in DOMAIN m1 THEN window_geometry(m1, w) ELSE NoRect, 0)
                  : w \in shownow}]

\* a viewer completes its handshake; without sharing the viewers already
\* attached are disconnected first
attach(ss, sharing) ==
    LET kept == IF sharing THEN window_sources ELSE {}
        r == send_initial_windows(models, ss, sharing)
    IN  /\ running
        /\ ss \notin window_sources
        /\ sharing => window_sources # {}
        /\ window_sources' = kept \cup {ss}
        /\ ui_driver' = IF ui_driver \in kept THEN ui_driver ELSE 0
        /\ models' = r.models
        /\ out' = r.out
        /\ last' = [Op("attach", 0, ss) EXCEPT
                        !.skip = sharing,
                        !.was_shown = \E w \in managed \cap DOMAIN models : models[w].shown]
        /\ UNCHANGED <<regvars, timervars, last_client_configure_event,
                       clamp_window_to_root, wm_state, focusvars, running>>

\* XpraServer.last_client_exited: what is left in _has_grab
last_client_exited(grab) == 0

\* a viewer disconnects; the driver is cleared when it was the driver, and
\* last_client_exited runs when no viewer is left
detach(ss) ==
    LET last_one == window_sources = {ss}
    IN  /\ running
        /\ ss \in window_sources
        /\ window_sources' = window_sources \ {ss}
        /\ ui_driver' = IF ui_driver = ss THEN 0 ELSE ui_driver
        /\ has_grab' = IF last_one THEN last_client_exited(has_grab) ELSE has_grab
        /\ out' = IF last_one /\ has_grab # 0
                  THEN {Msg("X11_ungrab", 0, 0, NoRect, 0)}
                  ELSE {}
        /\ last' = [Op("detach", 0, ss) EXCEPT !.pre = has_grab]
        /\ UNCHANGED <<regvars, models, timervars, last_client_configure_event,
                       clamp_window_to_root, wm_state, focus_history, always_raise_window, has_focus, last_raised, running>>

set_ui_driver(ss) == IF ui_driver = 0 THEN ss ELSE ui_driver

\* the election with the sender of every packet taking over
elect_ui_driver_always(ss) == ss

\* lines 931-932 and 1004-1005: if not self.ui_driver: self.set_ui_driver(ss)
elect_ui_driver(ss) == IF ui_driver = 0 THEN set_ui_driver(ss) ELSE ui_driver

\* ------------------------------------------------------- packet handlers
\* _clamp_window leaving every rectangle where it is
_clamp_window_nowhere(m, ss, wid, geom, resize_counter) ==
    [rect |-> geom, models |-> m, sent |-> {}]

\* [rect, models, sent]: the rectangle to use, the models after a counter
\* bump, the move-resize sent to the sender
_clamp_window(m, ss, wid, geom, resize_counter) ==
    LET rw == get_root_window_size[1]
        rh == get_root_window_size[2]
        x == Max(0, Min(geom[1], rw - geom[3]))
        y == Max(0, Min(geom[2], rh - geom[4]))
        m1 == get_resize_counter(m, wid, 1)
        rc == Max(resize_counter, m1[wid].resize_counter)
    IN  IF clamp_window_to_root /\ (geom[1] >= rw \/ geom[2] >= rh)
        THEN [rect |-> <<x, y, geom[3], geom[4]>>,
              models |-> m1,
              sent |-> {Msg("move-resize", ss, wid, <<x, y, geom[3], geom[4]>>, rc)}]
        ELSE [rect |-> geom, models |-> m, sent |-> {}]

\* the clamp bumps the resize counter: keep it within MaxCounter
ClampFits(wid, geom) ==
    (/\ clamp_window_to_root
     /\ wid \in DOMAIN models
     /\ (geom[1] >= get_root_window_size[1] \/ geom[2] >= get_root_window_size[2]))
    => models[wid].resize_counter < MaxCounter

Counter0(wid) == IF wid \in DOMAIN models THEN models[wid].resize_counter ELSE 0

\* ------------------------------------------------------------ window state
\* the flags a window-state dictionary can carry: "iconified" is the flag
\* OverrideRedirect windows ignore, "maximized" stands for the wm_state flags
Flags == {"iconified", "maximized"}

\* the window-state dictionaries: a boolean for some of the flags; the empty
\* one is also the packet too short to carry a window state
NoState == << >>
WindowStates == UNION {[D -> BOOLEAN] : D \in SUBSET Flags}

\* _set_window_state reporting every flag of the dictionary as changed
_set_window_state_reports_all(cur, kind, new_window_state) ==
    LET toggled == {k \in DOMAIN new_window_state :
                       /\ (k = "iconified") => kind # "or"
                       /\ (k \in cur) # new_window_state[k]}
    IN  [state |-> (cur \ {k \in toggled : ~new_window_state[k]})
                   \cup {k \in toggled : new_window_state[k]},
         changes |-> DOMAIN new_window_state]

\* [state, changes]: the flags that are set afterwards, the names returned
_set_window_state(cur, kind, new_window_state) ==
    LET toggled == {k \in DOMAIN new_window_state :
                       /\ (k = "iconified") => kind # "or"
                       /\ (k \in cur) # new_window_state[k]}
    IN  [state |-> (cur \ {k \in toggled : ~new_window_state[k]})
                   \cup {k \in toggled : new_window_state[k]},
         changes |-> toggled]

\* show_window, and configure_window on a hidden window: set_property("iconic",
\* False) when the window is iconic
uniconify(flags) == flags \ {"iconified"}

\* wm_state with the flags of one window replaced
with_state(wid, flags) == [wm_state EXCEPT ![wid] = flags]

\* a dropped packet that has already elected its sender
Dropped_after_driver(name, wid, ss) ==
    [ui_driver |-> set_ui_driver(ss), models |-> models, wm |-> wm_state, out |-> {},
     last |-> Op(name, wid, ss)]

\* the handler returns before doing anything (lines 917-920, 944-947)
Dropped(name, wid, ss) ==
    [ui_driver |-> ui_driver, models |-> models, wm |-> wm_state, out |-> {},
     last |-> Op(name, wid, ss)]

\* a map packet applied for the driver only
map_applies_driver_only(driver, ss, shown) == driver = ss

\* line 933: whether the map packet is applied
map_applies(driver, ss, shown) == driver = ss \/ ~shown

\* the refresh requested only when the map packet was applied
map_refresh_when_applied(apply, wid, geom) ==
    IF apply THEN {Msg("refresh", 0, wid, <<0, 0, geom[3], geom[4]>>, 0)} ELSE {}

\* line 939: refresh_window_area(window, 0, 0, w, h)
map_refresh(apply, wid, geom) ==
    {Msg("refresh", 0, wid, <<0, 0, geom[3], geom[4]>>, 0)}

map_window(ss, wid, geom, owner_changed, state) ==
    LET kind == id_to_window[wid]
        driver == elect_ui_driver(ss)
        shown == is_shown(models, wid)
        apply == map_applies(driver, ss, shown)
        sws == _set_window_state(wm_state[wid], kind, state)
        c == _clamp_window(models, ss, wid, geom, 0)
        d == configure_window(c.models, wid, c.rect, 0, owner_changed)
        after_unmap == last.op = "unmap" /\ last.wid = wid
        op == [Op("map", wid, ss) EXCEPT
                  !.rect = geom, !.was_shown = shown,
                  !.after_unmap = after_unmap,
                  !.pre = IF after_unmap THEN last.pre ELSE Counter0(wid),
                  !.state = state, !.packet = geom]
        applied == [op EXCEPT !.sws = state # NoState, !.changes = sws.changes]
        refresh == map_refresh(apply, wid, geom)
    IN  IF ~_lookup_window(wid) THEN Dropped("map", wid, ss)
        ELSE IF kind = "or" THEN Dropped("map", wid, ss)
        ELSE IF ~apply
             THEN [ui_driver |-> driver, models |-> models, wm |-> wm_state,
                   out |-> refresh, last |-> op]
        ELSE IF kind = "tray"
             THEN [ui_driver |-> driver, models |-> models,
                   wm |-> with_state(wid, sws.state), out |-> {},
                   last |-> [applied EXCEPT !.err = TRUE]]
        ELSE [ui_driver |-> driver,
              models |-> show_window(d.models, wid),
              wm |-> with_state(wid, uniconify(sws.state)),
              out |-> c.sent \cup d.calls \cup refresh,
              last |-> [applied EXCEPT !.dm = TRUE, !.rect = c.rect,
                                       !.election = owner_changed]]

\* the ownership election only matters when the window is hidden
Elections(wid) ==
    IF wid \in DOMAIN models /\ ~models[wid].shown THEN BOOLEAN ELSE {FALSE}

_process_map_window(ss, wid, geom, owner_changed, state) ==
    LET r == map_window(ss, wid, geom, owner_changed, state)
    IN  /\ running
        /\ owner_changed \in Elections(wid)
        /\ ss \in window_sources
        /\ ClampFits(wid, geom)
        /\ ui_driver' = r.ui_driver
        /\ models' = r.models
        /\ wm_state' = r.wm
        /\ out' = r.out
        /\ last' = r.last
        /\ UNCHANGED <<regvars, window_sources, timervars, last_client_configure_event,
                       clamp_window_to_root, focusvars, running>>

\* the unmap notification sent whether or not the window is shown
unmap_notification_always(shown, wid) == Broadcast("unmap-window", wid, NoRect, 0)

\* lines 959-962: if self._desktop_manager.is_shown(window): ss.unmap_window(...)
unmap_notification(shown, wid) ==
    IF shown THEN Broadcast("unmap-window", wid, NoRect, 0) ELSE {}

unmap_window(ss, wid, iconified, state) ==
    LET kind == id_to_window[wid]
        shown == is_shown(models, wid)
        sws == _set_window_state(wm_state[wid], kind, state)
        iconic == IF iconified THEN sws.state \cup {"iconified"} ELSE sws.state
        op == [Op("unmap", wid, ss) EXCEPT !.was_shown = shown, !.pre = Counter0(wid),
                  !.state = state, !.sws = state # NoState, !.changes = sws.changes]
        sent == unmap_notification(shown, wid)
    IN  IF ~_lookup_window(wid) THEN Dropped("unmap", wid, ss)
        ELSE IF kind = "or"
             THEN [ui_driver |-> ui_driver, models |-> models, wm |-> wm_state,
                   out |-> {},
                   last |-> [Op("unmap", wid, ss) EXCEPT !.was_shown = shown,
                                !.pre = Counter0(wid), !.err = TRUE]]
        ELSE IF ~shown
             THEN [ui_driver |-> ui_driver, models |-> models,
                   wm |-> with_state(wid, sws.state), out |-> sent, last |-> op]
        ELSE IF kind = "tray"
             THEN [ui_driver |-> ui_driver, models |-> models,
                   wm |-> with_state(wid, iconic), out |-> sent,
                   last |-> [op EXCEPT !.err = TRUE]]
        ELSE [ui_driver |-> ui_driver, models |-> hide_window(models, wid),
              wm |-> with_state(wid, iconic), out |-> sent, last |-> op]

_process_unmap_window(ss, wid, iconified, state) ==
    LET r == unmap_window(ss, wid, iconified, state)
    IN  /\ running
        /\ ss \in window_sources
        /\ models' = r.models
        /\ wm_state' = r.wm
        /\ out' = r.out
        /\ last' = r.last
        /\ UNCHANGED <<regvars, window_sources, ui_driver, timervars,
                       last_client_configure_event, clamp_window_to_root, focusvars,
                       running>>

\* the corrective resize carrying the packet's counter as it came
corrective_resize_same_counter(ss, wid, w, h, resize_counter) ==
    {Msg("resize", s, wid, <<0, 0, w, h>>, resize_counter)
     : s \in window_sources \ {ss}}

\* lines 1050-1055: the resize sent to the other viewers
corrective_resize(ss, wid, w, h, resize_counter) ==
    {Msg("resize", s, wid, <<0, 0, w, h>>, Max(0, resize_counter - 1))
     : s \in window_sources \ {ss}}

\* the rectangle of a configure packet handled whatever skip_geometry says
handles_geometry_always(skip_geometry) == TRUE

\* line 1041: if not skip_geometry
handles_geometry(skip_geometry) == ~skip_geometry

\* damage scheduled only for what the geometry branch changed
skipped_branch_damage_none(is_ui_driver, size_changed, shown) == FALSE

\* lines 1061-1062: the geometry branch was skipped, damage = True
skipped_branch_damage(is_ui_driver, size_changed, shown) ==
    ~(is_ui_driver \/ size_changed \/ ~shown)

configure_packet(ss, wid, geom, resize_counter, skip_geometry, owner_changed, state) ==
    LET kind == id_to_window[wid]
        driver == elect_ui_driver(ss)
        is_ui_driver == driver = ss
        shown == is_shown(models, wid)
        size_changed == IF kind \in {"or", "tray"} \/ skip_geometry
                        THEN FALSE
                        ELSE window_size(models, wid) # <<geom[3], geom[4]>>
        sws == IF is_ui_driver
               THEN _set_window_state(wm_state[wid], kind, state)
               ELSE [state |-> wm_state[wid], changes |-> {}]
        old == window_geometry(models, wid)
        c == _clamp_window(models, ss, wid, geom, resize_counter)
        d == configure_window(c.models, wid, c.rect, resize_counter, owner_changed)
        m2 == d.models
        resized == old[3] # c.rect[3] \/ old[4] # c.rect[4]
        corrective == IF resized /\ SHARING_SYNC_SIZE
                      THEN corrective_resize(ss, wid, c.rect[3], c.rect[4], resize_counter)
                      ELSE {}
        moved == old[1] # c.rect[1] \/ old[2] # c.rect[2] \/ resized
        op == [Op("configure", wid, ss) EXCEPT
                  !.rect = geom, !.rc = resize_counter, !.skip = skip_geometry,
                  !.was_shown = shown, !.pre = Counter0(wid), !.state = state,
                  !.packet = geom]
        applied == [op EXCEPT !.sws = is_ui_driver /\ state # NoState,
                              !.changes = sws.changes, !.branch = TRUE]
        same == [ui_driver |-> driver, models |-> models, wm |-> wm_state,
                 lcce |-> last_client_configure_event, out |-> {},
                 damage |-> FALSE, last |-> [op EXCEPT !.branch = TRUE]]
    IN  IF ~_lookup_window(wid)
        THEN [ui_driver |-> ui_driver, models |-> models, wm |-> wm_state,
              lcce |-> last_client_configure_event, out |-> {},
              damage |-> FALSE, last |-> Op("configure", wid, ss)]
        ELSE IF ~(is_ui_driver \/ size_changed \/ ~shown)
             THEN [same EXCEPT !.last = op,
                               !.damage = skipped_branch_damage(is_ui_driver,
                                                                size_changed, shown)]
        ELSE IF kind = "tray"
             THEN [same EXCEPT !.damage = ~skip_geometry]
        ELSE IF kind = "or" /\ ~skip_geometry
             THEN [same EXCEPT !.last = [op EXCEPT !.err = TRUE, !.branch = TRUE]]
        ELSE IF ~handles_geometry(skip_geometry)
             THEN [same EXCEPT !.lcce = monotonic_time,
                               !.wm = with_state(wid, sws.state),
                               !.damage = sws.changes # {},
                               !.last = applied]
        ELSE [ui_driver |-> driver,
              models |-> IF ~shown /\ ~skip_geometry THEN show_window(m2, wid) ELSE m2,
              wm |-> with_state(wid, IF shown THEN sws.state ELSE uniconify(sws.state)),
              lcce |-> monotonic_time,
              out |-> c.sent \cup d.calls \cup corrective,
              damage |-> sws.changes # {} \/ moved \/ (~shown /\ ~skip_geometry),
              last |-> [applied EXCEPT !.dm = TRUE, !.rect = c.rect,
                                       !.election = owner_changed]]

_process_configure_window(ss, wid, geom, resize_counter, skip_geometry, owner_changed, state) ==
    LET r == configure_packet(ss, wid, geom, resize_counter, skip_geometry,
                              owner_changed, state)
        d == IF r.damage
             THEN schedule_configure_damage(configure_damage_timers, timeouts, wid)
             ELSE [cdt |-> configure_damage_timers, live |-> timeouts]
    IN  /\ running
        /\ ss \in window_sources
        /\ owner_changed \in Elections(wid)
        /\ ClampFits(wid, geom)
        /\ ui_driver' = r.ui_driver
        /\ models' = r.models
        /\ wm_state' = r.wm
        /\ last_client_configure_event' = r.lcce
        /\ configure_damage_timers' = d.cdt
        /\ timeouts' = d.live
        /\ out' = r.out
        /\ last' = [r.last EXCEPT !.n = IF r.damage THEN 1 ELSE 0]
        /\ UNCHANGED <<regvars, window_sources, snc_timer, clamp_window_to_root,
                       focusvars, running>>

\* --------------------------------------------------------- control command
\* the loop of show_all_windows over _id_to_window, oldest window first:
\* show_window looks the window up in DesktopManager._models, which holds
\* Normal windows only, and the KeyError ends the loop
RECURSIVE show_all_loop(_, _, _)
show_all_loop(m, wm, w) ==
    IF w > next_wid THEN [models |-> m, wm |-> wm, err |-> FALSE]
    ELSE IF w \notin DOMAIN id_to_window THEN show_all_loop(m, wm, w + 1)
    ELSE IF w \notin DOMAIN m THEN [models |-> m, wm |-> wm, err |-> TRUE]
    ELSE show_all_loop(show_window(m, w), [wm EXCEPT ![w] = uniconify(@)], w + 1)

\* the show-all-windows control command
show_all_windows ==
    LET r == show_all_loop(models, wm_state, 1)
    IN  /\ running
        /\ models' = r.models
        /\ wm_state' = r.wm
        /\ out' = {}
        /\ last' = [Op("show_all", 0, 0) EXCEPT !.err = r.err]
        /\ UNCHANGED <<regvars, window_sources, ui_driver, timervars,
                       last_client_configure_event, clamp_window_to_root, focusvars,
                       running>>

\* ------------------------------------------- backend geometry notifications
\* [models, out]; lcce is -1 for the direct call
size_notify_clients(m, window, lcce) ==
    LET m1 == get_resize_counter(m, window, 1)
    IN  IF ~_lookup_window(window) THEN [models |-> m, out |-> {}]
        ELSE IF lcce > 0 /\ lcce # last_client_configure_event
             THEN [models |-> m, out |-> {}]
        ELSE [models |-> m1,
              out |-> Broadcast("move-resize", window, window_geometry(m, window),
                                m1[window].resize_counter)
                      \cup Broadcast("damage", window, window_geometry(m, window), 0)]

\* notify::geometry of a managed Normal window, the backend geometry being geom
_window_resized_signaled(window, geom) ==
    LET m1 == update_window_geometry(models, window, geom)
        lcce == last_client_configure_event
        r == size_notify_clients(m1, window, -1)
        live == IF snc_timer > 0 THEN source_remove(timeouts, snc_timer) ELSE timeouts
        id == timeout_add(live)
        op == [Op("resized", window, 0) EXCEPT !.rect = geom,
                  !.was_shown = models[window].shown, !.pre = Counter0(window)]
    IN  /\ running
        /\ window \in DOMAIN id_to_window
        /\ id_to_window[window] = "normal"
        /\ window \in managed
        /\ IF window_geometry(models, window) = geom
           THEN /\ out' = {}
                /\ UNCHANGED <<models, timervars>>
           ELSE IF ~is_shown(m1, window)
           THEN /\ models[window].resize_counter < MaxCounter
                /\ models' = r.models
                /\ snc_timer' = 0
                /\ out' = r.out
                /\ UNCHANGED <<configure_damage_timers, timeouts>>
           ELSE /\ models' = m1
                /\ snc_timer' = id
                /\ timeouts' = live \cup {Timer(id, "size_notify_clients", window, lcce, 0)}
                /\ out' = {}
                /\ UNCHANGED configure_damage_timers
        /\ last' = op
        /\ UNCHANGED <<regvars, window_sources, ui_driver, last_client_configure_event,
                       clamp_window_to_root, wm_state, focusvars, running>>

\* the size notification timer fires
snc_timeout(t) ==
    LET r == size_notify_clients(models, t.wid, t.lcce)
    IN  /\ running
        /\ t \in timeouts
        /\ t.fn = "size_notify_clients"
        /\ (r.models # models) => models[t.wid].resize_counter < MaxCounter
        /\ snc_timer' = 0
        /\ timeouts' = timeouts \ {t}
        /\ models' = r.models
        /\ out' = r.out
        /\ last' = [Op("size_notify", t.wid, 0) EXCEPT !.pre = Counter0(t.wid)]
        /\ UNCHANGED <<regvars, window_sources, ui_driver, configure_damage_timers,
                       last_client_configure_event, clamp_window_to_root, wm_state, focusvars,
                       running>>

\* notify::geometry of an OverrideRedirect window whose geometry is now geom
or_geometry_limit == 32768

_or_window_geometry_changed(wid, geom) ==
    /\ running
    /\ wid \in DOMAIN id_to_window
    /\ id_to_window[wid] = "or"
    /\ out' = IF geom[3] >= or_geometry_limit \/ geom[4] >= or_geometry_limit
              THEN {}
              ELSE Broadcast("or-window-geometry", wid, geom, 0)
    /\ last' = [Op("or_geometry", wid, 0) EXCEPT !.rect = geom]
    /\ UNCHANGED <<regvars, models, window_sources, ui_driver, timervars,
                   last_client_configure_event, clamp_window_to_root, wm_state,
                   focusvars, running>>

\* ------------------------------------------------------------------ focus
\* _focus with the root window id treated as an unknown window to skip
focus_outcome_root_skipped(wid) ==
    LET raised == IF last_raised # wid THEN None ELSE last_raised
        keep == [has_focus |-> has_focus, last_raised |-> raised, out |-> {}]
    IN  IF has_focus = wid THEN keep
        ELSE IF wid = 0 THEN keep
        ELSE IF wid \notin DOMAIN id_to_window
             THEN [keep EXCEPT !.has_focus = 0,
                               !.out = {Msg("reset-focus", 0, 0, NoRect, 0)}]
        ELSE IF id_to_window[wid] = "or" \/ wid \notin managed THEN keep
        ELSE [has_focus |-> wid, last_raised |-> wid,
              out |-> {Msg("give-focus", 0, wid, NoRect, 0)}]

\* _focus returning for a window that is not found as it does for an OR window
focus_outcome_missing_ignored(wid) ==
    LET raised == IF last_raised # wid THEN None ELSE last_raised
        keep == [has_focus |-> has_focus, last_raised |-> raised, out |-> {}]
    IN  IF has_focus = wid THEN keep
        ELSE IF wid = 0
             THEN [keep EXCEPT !.has_focus = 0,
                               !.out = {Msg("reset-focus", 0, 0, NoRect, 0)}]
        ELSE IF wid \notin DOMAIN id_to_window THEN keep
        ELSE IF id_to_window[wid] = "or" \/ wid \notin managed THEN keep
        ELSE [has_focus |-> wid, last_raised |-> wid,
              out |-> {Msg("give-focus", 0, wid, NoRect, 0)}]

\* _focus without the is_OR() test
focus_outcome_or_accepted(wid) ==
    LET raised == IF last_raised # wid THEN None ELSE last_raised
        keep == [has_focus |-> has_focus, last_raised |-> raised, out |-> {}]
    IN  IF has_focus = wid THEN keep
        ELSE IF wid = 0 \/ wid \notin DOMAIN id_to_window
             THEN [keep EXCEPT !.has_focus = 0,
                               !.out = {Msg("reset-focus", 0, 0, NoRect, 0)}]
        ELSE IF wid \notin managed THEN keep
        ELSE [has_focus |-> wid, last_raised |-> wid,
              out |-> {Msg("give-focus", 0, wid, NoRect, 0)}]

\* what _focus leaves in _has_focus and last_raised and what it asks of the
\* window manager
focus_outcome(wid) ==
    LET raised == IF last_raised # wid THEN None ELSE last_raised
        keep == [has_focus |-> has_focus, last_raised |-> raised, out |-> {}]
    IN  IF has_focus = wid THEN keep
        ELSE IF wid = 0 \/ wid \notin DOMAIN id_to_window
             THEN [keep EXCEPT !.has_focus = 0,
                               !.out = {Msg("reset-focus", 0, 0, NoRect, 0)}]
        ELSE IF id_to_window[wid] = "or" \/ wid \notin managed THEN keep
        ELSE [has_focus |-> wid, last_raised |-> wid,
              out |-> {Msg("give-focus", 0, wid, NoRect, 0)}]

\* deque.append: beyond maxlen the oldest entry is dropped
deque_append(q, x) ==
    IF Len(q) < focus_history_maxlen THEN Append(q, x) ELSE Append(Tail(q), x)

\* lines 742-745: a request for the window that has the focus returns before
\* the append, every other request is appended
focus_history_after(wid) ==
    IF has_focus = wid THEN focus_history ELSE deque_append(focus_history, wid)

_focus(ss, wid) ==
    LET r == focus_outcome(wid)
    IN  /\ running
        /\ ss \in window_sources
        /\ has_focus' = r.has_focus
        /\ focus_history' = focus_history_after(wid)
        /\ last_raised' = r.last_raised
        /\ out' = r.out
        /\ last' = [Op("focus", wid, ss) EXCEPT !.pre = has_focus]
        /\ UNCHANGED <<regvars, models, window_sources, ui_driver, timervars,
                       last_client_configure_event, clamp_window_to_root, wm_state,
                       always_raise_window, has_grab, running>>

get_focus == has_focus

\* ---------------------------------------------------------------- stacking
\* _move_pointer raising the window under the pointer on every event
pointer_raises_always(wid) == wid > 0 /\ _lookup_window(wid)

\* lines 1110-1115: the window is raised when it is not the one raised last
pointer_raises(wid) ==
    /\ wid > 0
    /\ last_raised # wid \/ always_raise_window
    /\ _lookup_window(wid)

\* a pointer event of a viewer for the window under its cursor
_move_pointer(wid) ==
    LET raise == pointer_raises(wid)
    IN  /\ running
        /\ window_sources # {}
        /\ last_raised' = IF raise THEN wid ELSE last_raised
        /\ out' = {Msg("move-pointer", 0, wid, NoRect, 0)}
                      \cup IF raise THEN {Msg("raise", 0, wid, NoRect, 0)} ELSE {}
        /\ last' = [Op("move_pointer", wid, 0) EXCEPT !.n = IF raise THEN 1 ELSE 0]
        /\ UNCHANGED <<regvars, models, window_sources, ui_driver, timervars,
                       last_client_configure_event, clamp_window_to_root, wm_state,
                       focus_history, always_raise_window, has_focus, has_grab,
                       running>>

\* the "restack" signal of a window that is not a tray: detail 0 is Above
_restack_window(wid, detail) ==
    /\ running
    /\ wid \in DOMAIN id_to_window
    /\ id_to_window[wid] # "tray"
    /\ last_raised' = IF last_raised # wid THEN None ELSE last_raised
    /\ out' = IF detail = 0 /\ has_focus = wid
              THEN {}
              ELSE Broadcast("restack-window", wid, NoRect, detail)
    /\ last' = [Op("restack", wid, 0) EXCEPT !.rc = detail]
    /\ UNCHANGED <<regvars, models, window_sources, ui_driver, timervars,
                   last_client_configure_event, clamp_window_to_root, wm_state,
                   focus_history, always_raise_window, has_focus, has_grab,
                   running>>

\* ------------------------------------------------------------------- grabs
\* self._window_to_id.get(window, -1)
grab_id(wid) == IF wid \in DOMAIN id_to_window THEN wid ELSE None

\* _window_grab taking whatever id the lookup gives
grab_outcome_unchecked(wid) ==
    IF has_grab = grab_id(wid)
    THEN [has_grab |-> has_grab, out |-> {}]
    ELSE [has_grab |-> grab_id(wid),
          out |-> Broadcast("pointer-grab", grab_id(wid), NoRect, 0)]

\* what _window_grab leaves in _has_grab and what it sends
grab_outcome(wid) ==
    IF grab_id(wid) < 0 \/ has_grab = grab_id(wid)
    THEN [has_grab |-> has_grab, out |-> {}]
    ELSE [has_grab |-> grab_id(wid),
          out |-> Broadcast("pointer-grab", grab_id(wid), NoRect, 0)]

\* the "grab" signal of the window model that was given id wid
_window_grab(wid) ==
    LET r == grab_outcome(wid)
    IN  /\ running
        /\ wid \in 1..next_wid
        /\ has_grab' = r.has_grab
        /\ out' = r.out
        /\ last' = [Op("grab", wid, 0) EXCEPT !.pre = has_grab]
        /\ UNCHANGED <<regvars, models, window_sources, ui_driver, timervars,
                       last_client_configure_event, clamp_window_to_root, wm_state, focus_history, always_raise_window,
                       has_focus, last_raised, running>>

\* _window_ungrab notifying the viewers although nothing is grabbed
ungrab_outcome_always_notifies(wid) ==
    [has_grab |-> 0, out |-> Broadcast("pointer-ungrab", grab_id(wid), NoRect, 0)]

\* what _window_ungrab leaves in _has_grab and what it sends
ungrab_outcome(wid) ==
    IF has_grab = 0
    THEN [has_grab |-> has_grab, out |-> {}]
    ELSE [has_grab |-> 0,
          out |-> Broadcast("pointer-ungrab", grab_id(wid), NoRect, 0)]

\* the "ungrab" signal of the window model that was given id wid
_window_ungrab(wid) ==
    LET r == ungrab_outcome(wid)
    IN  /\ running
        /\ wid \in 1..next_wid
        /\ has_grab' = r.has_grab
        /\ out' = r.out
        /\ last' = [Op("ungrab", wid, 0) EXCEPT !.pre = has_grab]
        /\ UNCHANGED <<regvars, models, window_sources, ui_driver, timervars,
                       last_client_configure_event, clamp_window_to_root, wm_state, focus_history, always_raise_window,
                       has_focus, last_raised, running>>

\* ------------------------------------------------------ screen negotiator
\* (xpra/x11/x11_server_core.py)  A resolution is a pair <<w, h>>; the list
\* of supported resolutions keeps the order in which the backend returns it.
NoSize == << >>
min_wh_start == 16384   \* what min_w and min_h start from in the aggregation
MaxSizes == 3           \* resolutions the backend supports by itself
MaxAdded == 1           \* resolutions added to the backend in one behaviour
MaxClients == 2         \* viewers taken into one aggregation

ScreenSizes == {<<1024, 768>>, <<1280, 1024>>, <<1920, 1080>>}
DesiredSizes == {<<800, 600>>, <<1024, 768>>, <<1200, 900>>, <<2000, 1200>>}
ClientSizes == {NoSize, <<0, 600>>, <<800, 600>>, <<1280, 1024>>}

Area(s) == s[1] * s[2]
Abs(x) == IF x < 0 THEN -x ELSE x
InSeq(s, seq) == \E i \in DOMAIN seq : seq[i] = s

RECURSIVE append_missing(_, _)
append_missing(sizes, added) ==
    IF added = << >> THEN sizes
    ELSE append_missing(IF InSeq(Head(added), sizes) THEN sizes
                        ELSE Append(sizes, Head(added)),
                        Tail(added))

get_all_screen_sizes(added) == append_missing(xrr_screen_sizes, added)

\* a dict keyed by the distance in pixels: set(d, k, v) replaces the entry of k
dict_set(d, k, v) == {p \in d : p[1] # k} \cup {<<k, v>>}
dict_first(d) == (CHOOSE p \in d : \A q \in d : p[1] <= q[1])[2]

\* the loop body of do_get_best_screen_size with the first acceptable
\* resolution kept whatever comes after it
best_step_first_fit(acc, s, dw, dh, bigger) ==
    IF (s[1] < dw) = bigger \/ (s[2] < dh) = bigger
    THEN [acc EXCEPT !.closest = dict_set(acc.closest, Abs(dw * dh - Area(s)), s)]
    ELSE IF acc.new_size # NoSize THEN acc
    ELSE [acc EXCEPT !.new_size = s]

\* the loop body of do_get_best_screen_size
best_step(acc, s, dw, dh, bigger) ==
    IF (s[1] < dw) = bigger \/ (s[2] < dh) = bigger
    THEN [acc EXCEPT !.closest = dict_set(acc.closest, Abs(dw * dh - Area(s)), s)]
    ELSE IF acc.new_size # NoSize /\ ((Area(acc.new_size) < Area(s)) = bigger)
         THEN acc
    ELSE [acc EXCEPT !.new_size = s]

RECURSIVE best_loop(_, _, _, _, _)
best_loop(sizes, acc, dw, dh, bigger) ==
    IF sizes = << >> THEN acc
    ELSE best_loop(Tail(sizes), best_step(acc, Head(sizes), dw, dh, bigger),
                   dw, dh, bigger)

\* the fallback of do_get_best_screen_size taking the farthest resolution
closest_size_farthest(closest) ==
    IF closest = {} THEN root_size
    ELSE (CHOOSE p \in closest : \A q \in closest : p[1] >= q[1])[2]

\* the fallback of do_get_best_screen_size: no resolution was acceptable
closest_size(closest) ==
    IF closest = {} THEN root_size ELSE dict_first(closest)

\* RandR.add_screen_size is tried when the backend takes arbitrary sizes;
\* add_ok is whether it succeeds
adds_size(dw, dh, add_ok) ==
    /\ randr
    /\ ~InSeq(<<dw, dh>>, get_all_screen_sizes(randr_sizes_added))
    /\ randr_exact_size
    /\ add_ok

\* the resolution returned, and randr_sizes_added afterwards
do_get_best_screen_size(dw, dh, bigger, add_ok) ==
    LET sizes == get_all_screen_sizes(randr_sizes_added)
        acc == best_loop(sizes, [new_size |-> NoSize, closest |-> {}], dw, dh, bigger)
    IN  IF ~randr THEN [size |-> <<dw, dh>>, added |-> randr_sizes_added]
        ELSE IF InSeq(<<dw, dh>>, sizes)
             THEN [size |-> <<dw, dh>>, added |-> randr_sizes_added]
        ELSE IF adds_size(dw, dh, add_ok)
             THEN [size |-> <<dw, dh>>, added |-> Append(randr_sizes_added, <<dw, dh>>)]
        ELSE IF acc.new_size # NoSize
             THEN [size |-> acc.new_size, added |-> randr_sizes_added]
        ELSE [size |-> closest_size(acc.closest), added |-> randr_sizes_added]

get_best_screen_size(dw, dh, bigger, add_ok) ==
    do_get_best_screen_size(dw, dh, bigger, add_ok)

RandRCall(name, size) == [call |-> name, size |-> size]

\* what RandR.get_screen_size answers once the backend was asked for `size'
RandR_get_screen_size(size) == size

\* set_screen_size going on to the backend although nothing changed
is_unchanged_never(size, xinerama_changed) == FALSE

\* the resolution found is the current one and the Xinerama layout is the same
is_unchanged(size, xinerama_changed) == size = root_size /\ ~xinerama_changed

RECURSIVE temp_loop(_, _, _)
temp_loop(sizes, size, temp) ==
    IF sizes = << >> THEN temp
    ELSE temp_loop(Tail(sizes), size,
                   IF Head(sizes) # size
                   THEN dict_set(temp, Abs(Area(Head(sizes)) - Area(size)), Head(sizes))
                   ELSE temp)

\* the Xinerama workaround never finding a resolution to switch to
temporary_size_none(sizes, size) == NoSize

\* the resolution the Xinerama workaround switches to for a moment
temporary_size(sizes, size) ==
    LET temp == temp_loop(sizes, size, {})
    IN  IF temp = {} THEN NoSize ELSE dict_first(temp)

\* what set_screen_size does: the backend calls it makes, the resolution it
\* returns and randr_sizes_added afterwards
do_set_screen_size(dw, dh, bigger, xinerama_changed, add_ok) ==
    LET best == get_best_screen_size(dw, dh, bigger, add_ok)
        size == best.size
        tmp == IF size = root_size /\ xinerama_changed
               THEN temporary_size(get_all_screen_sizes(best.added), size)
               ELSE NoSize
        calls == (IF tmp # NoSize THEN <<RandRCall("set_screen_size", tmp)>> ELSE << >>)
                 \o <<RandRCall("set_screen_size", size)>>
                 \o (IF randr_exact_size
                     THEN <<RandRCall("xrr_set_screen_size", size)>> ELSE << >>)
        same == [ret |-> root_size, added |-> randr_sizes_added, calls |-> << >>,
                 negotiated |-> NoSize, tmp |-> NoSize]
    IN  IF ~randr THEN same
        ELSE IF <<dw, dh>> = root_size /\ ~fake_xinerama THEN same
        ELSE IF is_unchanged(size, xinerama_changed)
             THEN [same EXCEPT !.added = best.added, !.negotiated = size]
        ELSE [ret |-> RandR_get_screen_size(size), added |-> best.added,
              calls |-> calls, negotiated |-> size, tmp |-> tmp]

ScreenOp(name, desired, bigger, xinerama_changed, r, handed, sss) ==
    [op |-> name, desired |-> desired, bigger |-> bigger,
     xinerama_changed |-> xinerama_changed, handed |-> handed, sss |-> sss,
     negotiated |-> r.negotiated, ret |-> r.ret, calls |-> r.calls,
     tmp |-> r.tmp, root |-> root_size,
     sizes |-> get_all_screen_sizes(randr_sizes_added)]

set_screen_size(dw, dh, bigger, xinerama_changed, add_ok) ==
    LET r == do_set_screen_size(dw, dh, bigger, xinerama_changed, add_ok)
    IN  /\ running
        /\ adds_size(dw, dh, add_ok) => Len(randr_sizes_added) < MaxAdded
        /\ root_size' = r.ret
        /\ randr_sizes_added' = r.added
        /\ out' = {}
        /\ last' = ScreenOp("set_screen_size", <<dw, dh>>, bigger, xinerama_changed,
                            r, TRUE, << >>)
        /\ UNCHANGED <<windowvars, xrr_screen_sizes, randr, randr_exact_size,
                       fake_xinerama>>

\* a viewer as configure_best_screen_size sees it
Client(size, bigger) == [desktop_size |-> size, screen_resize_bigger |-> bigger]

\* every list of at most n viewers
RECURSIVE ClientLists(_)
ClientLists(n) ==
    IF n = 0 THEN {<< >>}
    ELSE LET shorter == ClientLists(n - 1)
         IN  shorter \cup {Append(q, Client(s, b)) :
                            q \in shorter, s \in ClientSizes, b \in BOOLEAN}

aggregate_step(a, ss) ==
    IF ss.desktop_size = NoSize THEN a
    ELSE LET w == ss.desktop_size[1]
             h == ss.desktop_size[2]
         IN  [max_w |-> Max(a.max_w, w), max_h |-> Max(a.max_h, h),
              min_w |-> IF w > 0 THEN Min(a.min_w, w) ELSE a.min_w,
              min_h |-> IF h > 0 THEN Min(a.min_h, h) ELSE a.min_h,
              bigger |-> a.bigger /\ ss.screen_resize_bigger]

RECURSIVE aggregate(_, _)
aggregate(sss, a) ==
    IF sss = << >> THEN a ELSE aggregate(Tail(sss), aggregate_step(a, Head(sss)))

\* the size and the policy that go to set_screen_size
desired_size(sss) ==
    LET a == aggregate(sss, [max_w |-> 0, max_h |-> 0, min_w |-> min_wh_start,
                             min_h |-> min_wh_start, bigger |-> TRUE])
    IN  [size |-> IF a.bigger THEN <<a.max_w, a.max_h>> ELSE <<a.min_w, a.min_h>>,
         bigger |-> a.bigger]

\* sss: the viewers with ui_client set, in the order of _server_sources
configure_best_screen_size(sss, xinerama_changed) ==
    LET d == desired_size(sss)
        handed == randr /\ d.size[1] > 0 /\ d.size[2] > 0
        r == IF handed
             THEN do_set_screen_size(d.size[1], d.size[2], d.bigger, xinerama_changed, FALSE)
             ELSE [ret |-> root_size, added |-> randr_sizes_added, calls |-> << >>,
                   negotiated |-> NoSize, tmp |-> NoSize]
    IN  /\ running
        /\ root_size' = r.ret
        /\ randr_sizes_added' = r.added
        /\ out' = {}
        /\ last' = ScreenOp("configure_best_screen_size", d.size, d.bigger,
                            xinerama_changed, r, handed, sss)
        /\ UNCHANGED <<windowvars, xrr_screen_sizes, randr, randr_exact_size,
                       fake_xinerama>>

\* -------------------------------------------------- following a sequence
\* chain follows the calls of DesktopManager.configure_window on one window
\* while their resize counters strictly increase: `applied' is the rectangle
\* of the last of them that was not a stale acknowledgement
ChainNext ==
    LET w == last'.wid
        fresh == ~(last'.rc > 0 /\ last'.rc < models'[w].resize_counter)
        cont == chain.wid = w /\ last'.rc > chain.rc
    IN  IF last'.dm
        THEN [wid |-> w, rc |-> last'.rc,
              applied |-> IF fresh THEN last'.rect
                          ELSE IF cont THEN chain.applied ELSE NoRect,
              len |-> IF cont THEN chain.len + 1 ELSE 1]
        ELSE IF last'.op \in {"resized", "lost"} /\ last'.wid = chain.wid
             THEN NoChain
        ELSE chain

\* the run of pointer events of FollowedWid: `raises' counts the raises its
\* pointer events made since a focus request or restack of another window or a
\* new-window event, `strict' since any of those or a pointer event of another
\* window
FollowedWid == 1
NoRun == [open |-> FALSE, raises |-> 0, strict_open |-> FALSE, strict |-> 0]

RunNext ==
    LET run == IF chain = NoChain THEN NoRun ELSE chain
        o == last'
        other == o.wid # FollowedWid
    IN  IF o.op = "move_pointer" /\ ~other
        THEN [open |-> TRUE,
              raises |-> IF run.open THEN Min(run.raises + o.n, 2) ELSE o.n,
              strict_open |-> TRUE,
              strict |-> IF run.strict_open THEN Min(run.strict + o.n, 2) ELSE o.n]
        ELSE IF o.op = "move_pointer"
             THEN [run EXCEPT !.strict_open = FALSE, !.strict = 0]
        ELSE IF (o.op \in {"focus", "restack"} /\ other) \/ (o.op = "add" /\ o.rect # NoRect)
             THEN NoRun
        ELSE run

\* the counter of the last move-resize sent for FollowedWid: `rc' is that
\* counter once `len' is 1
SentNext ==
    LET sent == {m \in out' : m.type = "move-resize" /\ m.wid = FollowedWid}
    IN  IF sent # {}
        THEN [NoChain EXCEPT !.wid = FollowedWid, !.len = 1,
                             !.rc = (CHOOSE m \in sent : TRUE).counter]
        ELSE chain

\* ----------------------------------------------------------- specification
PacketWids == 1..(GeomWindows + 1)
GeomWids == 1..GeomWindows

\* no timer is pending: in the geometry slices a timer fires before the next
\* packet or backend event is handled
Quiescent == timeouts = {}

\* The whole server: every handler with every input.
Next ==
    \/ \E geom \in Rects : _add_new_window(geom) /\ UNCHANGED <<chain, screenvars>>
    \/ \E kind \in {"or", "tray"}, old \in {0} \cup Wids, ok \in BOOLEAN :
           _add_new_or_window(kind, old, ok) /\ UNCHANGED <<chain, screenvars>>
    \/ \E wid \in Wids : _lost_window(wid) /\ UNCHANGED <<chain, screenvars>>
    \/ \E wid \in Wids : no_longer_managed(wid) /\ UNCHANGED <<chain, screenvars>>
    \/ \E ss \in Sources, sharing \in BOOLEAN : attach(ss, sharing) /\ UNCHANGED <<chain, screenvars>>
    \/ \E ss \in Sources : detach(ss) /\ UNCHANGED <<chain, screenvars>>
    \/ \E ss \in Sources, wid \in Wids, geom \in Rects, oc \in BOOLEAN,
          state \in WindowStates :
           _process_map_window(ss, wid, geom, oc, state) /\ UNCHANGED <<chain, screenvars>>
    \/ \E ss \in Sources, wid \in Wids, iconified \in BOOLEAN, state \in WindowStates :
           _process_unmap_window(ss, wid, iconified, state)
               /\ UNCHANGED <<chain, screenvars>>
    \/ \E ss \in Sources, wid \in Wids, geom \in Rects, rc \in Counters,
          skip \in BOOLEAN, oc \in BOOLEAN, state \in WindowStates :
           _process_configure_window(ss, wid, geom, rc, skip, oc, state)
               /\ UNCHANGED <<chain, screenvars>>
    \/ \E wid \in Wids, geom \in Rects : _window_resized_signaled(wid, geom) /\ UNCHANGED <<chain, screenvars>>
    \/ \E t \in timeouts : snc_timeout(t) /\ UNCHANGED <<chain, screenvars>>
    \/ \E t \in timeouts : damage(t) /\ UNCHANGED <<chain, screenvars>>
    \/ \E ss \in Sources, wid \in {0} \cup Wids : _focus(ss, wid) /\ UNCHANGED <<chain, screenvars>>
    \/ \E wid \in Wids : _window_grab(wid) /\ UNCHANGED <<chain, screenvars>>
    \/ \E wid \in Wids : _window_ungrab(wid) /\ UNCHANGED <<chain, screenvars>>
    \/ do_cleanup /\ UNCHANGED <<chain, screenvars>>
    \/ \E wid \in Wids, geom \in Rects :
           _or_window_geometry_changed(wid, geom) /\ UNCHANGED <<chain, screenvars>>
    \/ \E d \in DesiredSizes, bigger \in BOOLEAN, xc \in BOOLEAN, add_ok \in BOOLEAN :
           set_screen_size(d[1], d[2], bigger, xc, add_ok)
    \/ \E sss \in ClientLists(MaxClients), xc \in BOOLEAN :
           configure_best_screen_size(sss, xc)
    \/ \E wid \in {0} \cup Wids : _move_pointer(wid) /\ UNCHANGED <<chain, screenvars>>
    \/ \E wid \in Wids, detail \in {0, 1} :
           _restack_window(wid, detail) /\ UNCHANGED <<chain, screenvars>>
    \/ show_all_windows /\ UNCHANGED <<chain, screenvars>>

Spec == Init /\ [][Next]_vars

\* The geometry protocol of Normal windows: the handlers that read or write
\* the DesktopManager and the driver, and the timers they start.
NextGeom ==
    \/ \E geom \in Rects :
           Quiescent /\ next_wid < GeomWindows /\ _add_new_window(geom) /\ UNCHANGED <<chain, screenvars>>
    \/ \E wid \in GeomWids : Quiescent /\ _lost_window(wid) /\ UNCHANGED <<chain, screenvars>>
    \/ \E ss \in Sources, sharing \in BOOLEAN :
           Quiescent /\ attach(ss, sharing) /\ UNCHANGED <<chain, screenvars>>
    \/ \E ss \in Sources : Quiescent /\ detach(ss) /\ UNCHANGED <<chain, screenvars>>
    \/ \E ss \in Sources, wid \in PacketWids, geom \in Rects, oc \in BOOLEAN :
           Quiescent /\ _process_map_window(ss, wid, geom, oc, NoState) /\ UNCHANGED <<chain, screenvars>>
    \/ \E ss \in Sources, wid \in PacketWids :
           Quiescent /\ _process_unmap_window(ss, wid, FALSE, NoState) /\ UNCHANGED <<chain, screenvars>>
    \/ \E ss \in Sources, wid \in PacketWids, geom \in Rects, rc \in Counters,
          skip \in BOOLEAN, oc \in BOOLEAN :
           Quiescent /\ _process_configure_window(ss, wid, geom, rc, skip, oc, NoState)
                     /\ UNCHANGED <<chain, screenvars>>
    \/ \E wid \in GeomWids, geom \in Rects :
           Quiescent /\ _window_resized_signaled(wid, geom) /\ UNCHANGED <<chain, screenvars>>
    \/ \E t \in timeouts : snc_timeout(t) /\ UNCHANGED <<chain, screenvars>>
    \/ \E t \in timeouts : damage(t) /\ UNCHANGED <<chain, screenvars>>

SpecGeom == Init /\ [][NextGeom]_vars

\* The same handlers, following one sequence of configure_window calls.
NextSeq ==
    \/ \E geom \in Rects :
           Quiescent /\ next_wid < GeomWindows /\ _add_new_window(geom) /\ chain' = ChainNext /\ UNCHANGED screenvars
    \/ \E wid \in GeomWids : Quiescent /\ _lost_window(wid) /\ chain' = ChainNext /\ UNCHANGED screenvars
    \/ \E ss \in Sources, sharing \in BOOLEAN :
           Quiescent /\ attach(ss, sharing) /\ chain' = ChainNext /\ UNCHANGED screenvars
    \/ \E ss \in Sources, wid \in GeomWids, geom \in Rects, oc \in BOOLEAN :
           Quiescent /\ _process_map_window(ss, wid, geom, oc, NoState) /\ chain' = ChainNext /\ UNCHANGED screenvars
    \/ \E ss \in Sources, wid \in GeomWids :
           Quiescent /\ _process_unmap_window(ss, wid, FALSE, NoState) /\ chain' = ChainNext /\ UNCHANGED screenvars
    \/ \E ss \in Sources, wid \in GeomWids, geom \in Rects, rc \in Counters,
          skip \in BOOLEAN, oc \in BOOLEAN :
           Quiescent /\ _process_configure_window(ss, wid, geom, rc, skip, oc, NoState)
                     /\ chain' = ChainNext /\ UNCHANGED screenvars
    \/ \E wid \in GeomWids, geom \in Rects :
           Quiescent /\ _window_resized_signaled(wid, geom) /\ chain' = ChainNext /\ UNCHANGED screenvars
    \/ \E t \in timeouts : snc_timeout(t) /\ chain' = ChainNext /\ UNCHANGED screenvars
    \/ \E t \in timeouts : damage(t) /\ chain' = ChainNext /\ UNCHANGED screenvars

SpecSeq == Init /\ [][NextSeq]_vars

\* The damage limiter: timers pend while windows come and go and further
\* packets arrive.
DamageRects == {<<0, 0, 1, 1>>, <<0, 0, 2, 1>>}

NextDamage ==
    \/ _add_new_window(<<0, 0, 1, 1>>) /\ UNCHANGED <<chain, screenvars>>
    \/ \E old \in {0} \cup Wids : _add_new_or_window("or", old, TRUE) /\ UNCHANGED <<chain, screenvars>>
    \/ \E wid \in Wids : _lost_window(wid) /\ UNCHANGED <<chain, screenvars>>
    \/ \E wid \in Wids : no_longer_managed(wid) /\ UNCHANGED <<chain, screenvars>>
    \/ attach(1, FALSE) /\ UNCHANGED <<chain, screenvars>>
    \/ \E wid \in Wids, geom \in DamageRects :
           _process_configure_window(1, wid, geom, 0, FALSE, FALSE, NoState) /\ UNCHANGED <<chain, screenvars>>
    \/ \E t \in timeouts : damage(t) /\ UNCHANGED <<chain, screenvars>>
    \/ do_cleanup /\ UNCHANGED <<chain, screenvars>>

SpecDamage == Init /\ [][NextDamage]_vars

\* The focus arbiter, with windows of every kind coming and going.
NextFocus ==
    \/ _add_new_window(<<0, 0, 1, 1>>) /\ UNCHANGED <<chain, screenvars>>
    \/ \E kind \in {"or", "tray"}, old \in {0} \cup Wids, ok \in BOOLEAN :
           _add_new_or_window(kind, old, ok) /\ UNCHANGED <<chain, screenvars>>
    \/ \E wid \in Wids : _lost_window(wid) /\ UNCHANGED <<chain, screenvars>>
    \/ \E wid \in Wids : no_longer_managed(wid) /\ UNCHANGED <<chain, screenvars>>
    \/ attach(1, FALSE) /\ UNCHANGED <<chain, screenvars>>
    \/ \E wid \in 0..(MaxWid + 1) : _focus(1, wid) /\ UNCHANGED <<chain, screenvars>>

SpecFocus == Init /\ [][NextFocus]_vars

\* Pointer grabs, with windows of every kind and viewers coming and going.
NextGrab ==
    \/ _add_new_window(<<0, 0, 1, 1>>) /\ UNCHANGED <<chain, screenvars>>
    \/ \E kind \in {"or", "tray"}, old \in {0} \cup Wids, ok \in BOOLEAN :
           _add_new_or_window(kind, old, ok) /\ UNCHANGED <<chain, screenvars>>
    \/ \E wid \in Wids : _lost_window(wid) /\ UNCHANGED <<chain, screenvars>>
    \/ \E ss \in Sources, sharing \in BOOLEAN : attach(ss, sharing) /\ UNCHANGED <<chain, screenvars>>
    \/ \E ss \in Sources : detach(ss) /\ UNCHANGED <<chain, screenvars>>
    \/ \E wid \in Wids : _window_grab(wid) /\ UNCHANGED <<chain, screenvars>>
    \/ \E wid \in Wids : _window_ungrab(wid) /\ UNCHANGED <<chain, screenvars>>
    \/ do_cleanup /\ UNCHANGED <<chain, screenvars>>

SpecGrab == Init /\ [][NextGrab]_vars

\* The driver election: packets of two viewers for windows of every kind.
NextDriver ==
    \/ Quiescent /\ _add_new_window(<<0, 0, 1, 1>>) /\ UNCHANGED <<chain, screenvars>>
    \/ \E kind \in {"or", "tray"} :
           Quiescent /\ _add_new_or_window(kind, 0, TRUE) /\ UNCHANGED <<chain, screenvars>>
    \/ \E ss \in Sources, sharing \in BOOLEAN :
           Quiescent /\ attach(ss, sharing) /\ UNCHANGED <<chain, screenvars>>
    \/ \E ss \in Sources : Quiescent /\ detach(ss) /\ UNCHANGED <<chain, screenvars>>
    \/ \E ss \in Sources, wid \in Wids :
           Quiescent /\ _process_map_window(ss, wid, <<0, 0, 1, 1>>, FALSE, NoState)
                     /\ UNCHANGED <<chain, screenvars>>
    \/ \E ss \in Sources, wid \in Wids :
           Quiescent /\ _process_unmap_window(ss, wid, FALSE, NoState) /\ UNCHANGED <<chain, screenvars>>
    \/ \E ss \in Sources, wid \in Wids, skip \in BOOLEAN :
           Quiescent /\ _process_configure_window(ss, wid, <<0, 0, 1, 1>>, 0, skip, FALSE, NoState)
                     /\ UNCHANGED <<chain, screenvars>>
    \/ \E t \in timeouts : damage(t) /\ UNCHANGED <<chain, screenvars>>

SpecDriver == Init /\ [][NextDriver]_vars

\* Pointer events, focus requests and restacking over two windows.
InitPointer ==
    /\ InitServer
    /\ clamp_window_to_root = FALSE
    /\ always_raise_window \in BOOLEAN
    /\ root_size = <<1024, 768>>
    /\ xrr_screen_sizes = <<<<1024, 768>>, <<1280, 1024>>>>
    /\ randr_sizes_added = << >>
    /\ randr = TRUE
    /\ randr_exact_size = FALSE
    /\ fake_xinerama = FALSE

NextPointer ==
    \/ _add_new_window(<<0, 0, 1, 1>>) /\ chain' = RunNext /\ UNCHANGED screenvars
    \/ _add_new_or_window("or", 0, TRUE) /\ chain' = RunNext /\ UNCHANGED screenvars
    \/ \E wid \in Wids : _lost_window(wid) /\ chain' = RunNext /\ UNCHANGED screenvars
    \/ attach(1, FALSE) /\ chain' = RunNext /\ UNCHANGED screenvars
    \/ \E wid \in 0..MaxWid : _focus(1, wid) /\ chain' = RunNext /\ UNCHANGED screenvars
    \/ \E wid \in 0..MaxWid : _move_pointer(wid) /\ chain' = RunNext /\ UNCHANGED screenvars
    \/ \E wid \in Wids, detail \in {0, 1} :
           _restack_window(wid, detail) /\ chain' = RunNext /\ UNCHANGED screenvars

SpecPointer == InitPointer /\ [][NextPointer]_vars

\* The screen negotiator alone, over every backend configuration.
RECURSIVE SeqsNoRepeat(_, _)
SeqsNoRepeat(S, n) ==
    IF n = 0 THEN {<< >>}
    ELSE LET shorter == SeqsNoRepeat(S, n - 1)
         IN  shorter \cup {Append(q, s) : q \in shorter, s \in S}

SizeLists ==
    {q \in SeqsNoRepeat(ScreenSizes, MaxSizes) :
        \A i, j \in DOMAIN q : i # j => q[i] # q[j]}

\* init_randr turns exact sizes on when the backend lists one resolution and
\* resolution changes off when it lists none, unless the root window already
\* carries the exact-size property
init_randr_allows(sizes, r, exact) == (r /\ ~exact) => Len(sizes) >= 2

InitScreen ==
    /\ InitServer
    /\ clamp_window_to_root = FALSE
    /\ always_raise_window = FALSE
    /\ xrr_screen_sizes \in SizeLists
    /\ root_size \in ScreenSizes
    /\ randr_sizes_added = << >>
    /\ randr \in BOOLEAN
    /\ randr_exact_size \in BOOLEAN
    /\ init_randr_allows(xrr_screen_sizes, randr, randr_exact_size)
    /\ fake_xinerama \in BOOLEAN

NextScreen ==
    \E d \in DesiredSizes, bigger \in BOOLEAN, xc \in BOOLEAN, add_ok \in BOOLEAN :
        set_screen_size(d[1], d[2], bigger, xc, add_ok)

SpecScreen == InitScreen /\ [][NextScreen]_vars

\* The negotiator under the prefer-smaller policy, with desired sizes that
\* share a width or a height with a resolution of the backend.
SmallerDesiredSizes == {<<1280, 1100>>, <<1100, 768>>, <<1200, 900>>}

NextSmaller ==
    \E d \in SmallerDesiredSizes, xc \in BOOLEAN, add_ok \in BOOLEAN :
        set_screen_size(d[1], d[2], FALSE, xc, add_ok)

SpecSmaller == InitScreen /\ [][NextSmaller]_vars

\* The aggregation of the viewers' desktop sizes, over a fixed backend.
InitAggregate ==
    /\ InitServer
    /\ clamp_window_to_root = FALSE
    /\ always_raise_window = FALSE
    /\ xrr_screen_sizes = <<<<1024, 768>>, <<1280, 1024>>, <<1920, 1080>>>>
    /\ root_size \in ScreenSizes
    /\ randr_sizes_added = << >>
    /\ randr \in BOOLEAN
    /\ randr_exact_size = FALSE
    /\ fake_xinerama = FALSE

NextAggregate ==
    \E sss \in ClientLists(MaxClients), xc \in BOOLEAN :
        configure_best_screen_size(sss, xc)

SpecAggregate == InitAggregate /\ [][NextAggregate]_vars

\* Rectangles at and beyond the limits: clamping on or off, rectangles that
\* reach over the root window (2 x 2) or start outside it, and overlarge ones.
BoundsRects ==
    {<<0, 0, 1, 1>>, <<1, 0, 2, 1>>, <<2, 0, 1, 1>>, <<0, 0, or_geometry_limit, 1>>}

InitBounds ==
    /\ InitServer
    /\ clamp_window_to_root \in BOOLEAN
    /\ always_raise_window = FALSE
    /\ root_size = <<1024, 768>>
    /\ xrr_screen_sizes = <<<<1024, 768>>, <<1280, 1024>>>>
    /\ randr_sizes_added = << >>
    /\ randr = TRUE
    /\ randr_exact_size = FALSE
    /\ fake_xinerama = FALSE

NextBounds ==
    \/ Quiescent /\ next_wid = 0 /\ _add_new_window(<<0, 0, 1, 1>>)
                 /\ UNCHANGED <<chain, screenvars>>
    \/ Quiescent /\ next_wid = 1 /\ _add_new_or_window("or", 0, TRUE)
                 /\ UNCHANGED <<chain, screenvars>>
    \/ \E ss \in Sources, sharing \in BOOLEAN :
           Quiescent /\ attach(ss, sharing) /\ UNCHANGED <<chain, screenvars>>
    \/ \E ss \in Sources, geom \in BoundsRects :
           Quiescent /\ _process_map_window(ss, 1, geom, FALSE, NoState)
                     /\ UNCHANGED <<chain, screenvars>>
    \/ \E ss \in Sources, geom \in BoundsRects :
           Quiescent /\ _process_configure_window(ss, 1, geom, 0, FALSE, FALSE, NoState)
                     /\ UNCHANGED <<chain, screenvars>>
    \/ \E wid \in Wids, geom \in BoundsRects :
           Quiescent /\ _or_window_geometry_changed(wid, geom)
                     /\ UNCHANGED <<chain, screenvars>>
    \/ \E t \in timeouts : damage(t) /\ UNCHANGED <<chain, screenvars>>

SpecBounds == InitBounds /\ [][NextBounds]_vars

\* Clamping and the resize counter: one Normal window, packets with every
\* counter, backend geometry changes and their notifications.
ClampRects == {<<0, 0, 1, 1>>, <<1, 0, 1, 1>>, <<2, 0, 1, 1>>}

NextClamp ==
    \/ Quiescent /\ next_wid = 0 /\ _add_new_window(<<0, 0, 1, 1>>)
                 /\ chain' = SentNext /\ UNCHANGED screenvars
    \/ \E ss \in Sources, sharing \in BOOLEAN :
           Quiescent /\ attach(ss, sharing) /\ chain' = SentNext /\ UNCHANGED screenvars
    \/ \E ss \in Sources, geom \in ClampRects :
           Quiescent /\ _process_map_window(ss, FollowedWid, geom, FALSE, NoState)
                     /\ chain' = SentNext /\ UNCHANGED screenvars
    \/ \E ss \in Sources :
           Quiescent /\ _process_unmap_window(ss, FollowedWid, FALSE, NoState)
                     /\ chain' = SentNext /\ UNCHANGED screenvars
    \/ \E ss \in Sources, geom \in ClampRects, rc \in Counters :
           Quiescent /\ _process_configure_window(ss, FollowedWid, geom, rc, FALSE, FALSE,
                                                  NoState)
                     /\ chain' = SentNext /\ UNCHANGED screenvars
    \/ \E geom \in ClampRects :
           Quiescent /\ _window_resized_signaled(FollowedWid, geom)
                     /\ chain' = SentNext /\ UNCHANGED screenvars
    \/ \E t \in timeouts : snc_timeout(t) /\ chain' = SentNext /\ UNCHANGED screenvars
    \/ \E t \in timeouts : damage(t) /\ chain' = SentNext /\ UNCHANGED screenvars

SpecClamp == InitBounds /\ [][NextClamp]_vars

\* The show-all-windows command over windows of every kind.
ShowRects == {<<0, 0, 1, 1>>, <<1, 0, 1, 1>>}

NextShow ==
    \/ Quiescent /\ _add_new_window(<<0, 0, 1, 1>>) /\ UNCHANGED <<chain, screenvars>>
    \/ \E kind \in {"or", "tray"} :
           Quiescent /\ _add_new_or_window(kind, 0, TRUE) /\ UNCHANGED <<chain, screenvars>>
    \/ \E wid \in Wids : Quiescent /\ _lost_window(wid) /\ UNCHANGED <<chain, screenvars>>
    \/ \E ss \in Sources, sharing \in BOOLEAN :
           Quiescent /\ attach(ss, sharing) /\ UNCHANGED <<chain, screenvars>>
    \/ \E ss \in Sources, wid \in Wids :
           /\ Quiescent
           /\ wid \in DOMAIN models
           /\ _process_unmap_window(ss, wid, TRUE, NoState)
           /\ UNCHANGED <<chain, screenvars>>
    \/ Quiescent /\ show_all_windows /\ UNCHANGED <<chain, screenvars>>
    \/ \E wid \in Wids : Quiescent /\ no_longer_managed(wid) /\ UNCHANGED <<chain, screenvars>>
    \/ \E wid \in Wids, geom \in ShowRects :
           Quiescent /\ _window_resized_signaled(wid, geom) /\ UNCHANGED <<chain, screenvars>>
    \/ \E t \in timeouts : snc_timeout(t) /\ UNCHANGED <<chain, screenvars>>

SpecShow == Init /\ [][NextShow]_vars

\* Backend moves of two windows, with the main loop running every timer that
\* is due: a timeout source that stays installed is eventually dispatched.
NotifyRect == <<1, 0, 1, 1>>

\* the refresh a packet asked for has run before the next packet is handled
NoDamagePending == DOMAIN configure_damage_timers = {}

SncFires == \E t \in timeouts : snc_timeout(t) /\ UNCHANGED <<chain, screenvars>>

DamageFires == \E t \in timeouts : damage(t) /\ UNCHANGED <<chain, screenvars>>

NextNotify ==
    \/ _add_new_window(<<0, 0, 1, 1>>) /\ UNCHANGED <<chain, screenvars>>
    \/ \E wid \in Wids : _lost_window(wid) /\ UNCHANGED <<chain, screenvars>>
    \/ attach(1, FALSE) /\ UNCHANGED <<chain, screenvars>>
    \/ \E wid \in Wids :
           /\ NoDamagePending
           /\ _process_map_window(1, wid, <<0, 0, 1, 1>>, FALSE, NoState)
           /\ UNCHANGED <<chain, screenvars>>
    \/ \E wid \in Wids :
           /\ NoDamagePending
           /\ _process_configure_window(1, wid, <<0, 0, 1, 1>>, 0, FALSE, FALSE, NoState)
           /\ UNCHANGED <<chain, screenvars>>
    \/ \E wid \in Wids :
           /\ wid \in DOMAIN models
           /\ models[wid].resize_counter < MaxCounter - 1
           /\ _window_resized_signaled(wid, NotifyRect)
           /\ UNCHANGED <<chain, screenvars>>
    \/ SncFires
    \/ DamageFires

SpecNotify == Init /\ [][NextNotify]_vars /\ WF_vars(SncFires) /\ WF_vars(DamageFires)

\* The handlers with window-state dictionaries: one Normal window and one
\* override-redirect window, every packet carrying one of StateInputs.
StateInputs ==
    {NoState,
     [k \in {"maximized"} |-> TRUE],
     [k \in {"maximized"} |-> FALSE],
     [k \in {"iconified"} |-> TRUE],
     [k \in Flags |-> k = "maximized"]}

StateRects == {<<0, 0, 1, 1>>, <<1, 0, 1, 1>>}

NextState ==
    \/ Quiescent /\ next_wid = 0 /\ _add_new_window(<<0, 0, 1, 1>>)
                 /\ UNCHANGED <<chain, screenvars>>
    \/ Quiescent /\ next_wid = 1 /\ _add_new_or_window("or", 0, TRUE)
                 /\ UNCHANGED <<chain, screenvars>>
    \/ \E ss \in Sources, sharing \in BOOLEAN :
           Quiescent /\ attach(ss, sharing) /\ UNCHANGED <<chain, screenvars>>
    \/ \E ss \in Sources, state \in StateInputs :
           Quiescent /\ _process_map_window(ss, 1, <<0, 0, 1, 1>>, FALSE, state)
                     /\ UNCHANGED <<chain, screenvars>>
    \/ \E ss \in Sources, state \in StateInputs :
           Quiescent /\ _process_unmap_window(ss, 1, FALSE, state)
                     /\ UNCHANGED <<chain, screenvars>>
    \/ \E ss \in Sources, wid \in Wids, geom \in StateRects, skip \in BOOLEAN,
          state \in StateInputs :
           Quiescent /\ (skip \/ wid = 1)
                     /\ _process_configure_window(ss, wid, geom, 0, skip, FALSE, state)
                     /\ UNCHANGED <<chain, screenvars>>
    \/ \E t \in timeouts : damage(t) /\ UNCHANGED <<chain, screenvars>>

SpecState == Init /\ [][NextState]_vars

\* ------------------------------------------------------------------ claims
\* the call of DesktopManager.configure_window the step made is a stale
\* acknowledgement: 0 < resize_counter < the window's current counter
StaleCall ==
    /\ last'.dm
    /\ last'.rc > 0
    /\ last'.rc < models'[last'.wid].resize_counter

\* C1 as stated: a configure_window call whose resize_counter is less than
\* or equal to the window's current counter leaves the stored rectangle as
\* it was.
C1_CounterNotAboveKeepsGeometry ==
    [][(last'.dm /\ last'.rc <= models'[last'.wid].resize_counter)
       => models'[last'.wid].geom = models[last'.wid].geom]_vars

\* C1 amended: a configure_window call on a Normal window whose
\* resize_counter is greater than 0 and strictly less than the window's
\* current counter leaves the stored rectangle as it was.
C1_StaleCallKeepsGeometry ==
    [][StaleCall => models'[last'.wid].geom = models[last'.wid].geom]_vars

C1_Witness ==
    /\ last.dm
    /\ last.op = "configure"
    /\ last.rc > 0
    /\ last.rc < models[last.wid].resize_counter
    /\ models[last.wid].geom # last.rect

\* C2: along a sequence of configure_window calls on one Normal window with
\* strictly increasing resize counters and no backend geometry update in
\* between, the stored rectangle is the rectangle of the last call of the
\* sequence that was applied (not a stale acknowledgement).
C2_LastAppliedRectangleStored ==
    (chain.wid # 0 /\ chain.applied # NoRect)
    => (chain.wid \in DOMAIN models /\ models[chain.wid].geom = chain.applied)

C2_Witness ==
    /\ chain.len >= 2
    /\ chain.applied # NoRect
    /\ last.dm
    /\ last.rect # chain.applied
    /\ models[chain.wid].geom = chain.applied

\* C3: a stale viewer configure (0 < rc < current counter) on a hidden
\* window leaves the stored rectangle unchanged and still shows the window:
\* it is mapped and its shown flag is set.
C3_StaleCallStillShows ==
    [][(StaleCall /\ ~models[last'.wid].shown)
       => /\ models'[last'.wid].geom = models[last'.wid].geom
          /\ models'[last'.wid].shown
          /\ Msg("map", 0, last'.wid, NoRect, 0) \in out']_vars

C3_Witness ==
    /\ last.dm
    /\ last.rc > 0
    /\ last.rc < models[last.wid].resize_counter
    /\ ~last.was_shown
    /\ models[last.wid].shown
    /\ models[last.wid].geom # last.rect
    /\ Msg("map", 0, last.wid, NoRect, 0) \in out

\* C4: for a registered Normal window, a map-window packet handled right
\* after an unmap-window packet for the same wid leaves the window shown
\* with a resize counter not lower than before the unmap.
C4_UnmapThenMapShows ==
    [][(/\ last.op = "unmap"
        /\ last'.op = "map"
        /\ last'.wid = last.wid
        /\ last.wid \in DOMAIN models)
       => /\ models'[last.wid].shown
          /\ models'[last.wid].resize_counter >= last.pre]_vars

C4_Witness ==
    /\ last.op = "map"
    /\ last.after_unmap
    /\ ~last.was_shown
    /\ last.wid \in DOMAIN models
    /\ last.src # ui_driver
    /\ last.pre > 0
    /\ models[last.wid].shown
    /\ models[last.wid].resize_counter = last.pre

\* C5: a map-window, configure-window or unmap-window packet for a wid that
\* is not in the registry changes no registry or Desktop state, no driver
\* and no timer, and sends nothing.
C5_UnknownWidDropped ==
    [][(/\ last'.op \in {"map", "configure", "unmap"}
        /\ last'.wid \notin DOMAIN id_to_window)
       => /\ UNCHANGED <<id_to_window, managed, next_wid, models, ui_driver,
                         configure_damage_timers, timeouts, snc_timer>>
          /\ out' = {}]_vars

C5_Witness ==
    /\ last.op = "configure"
    /\ last.wid \notin DOMAIN id_to_window
    /\ DOMAIN models # {}
    /\ window_sources # {}
    /\ ui_driver = 0
    /\ out = {}

\* C6: with several viewers attached, a geometry-carrying configure packet
\* that changes the stored size of a Normal window sends every other
\* viewer, and not its sender, a resize for that wid with the new size and
\* the counter max(0, rc - 1).
C6_OthersGetCorrectiveResize ==
    [][(/\ last'.op = "configure"
        /\ last'.dm
        /\ Cardinality(window_sources) >= 2
        /\ window_size(models', last'.wid) # window_size(models, last'.wid))
       => /\ \A s \in window_sources \ {last'.src} :
                 Msg("resize", s, last'.wid,
                     <<0, 0, models'[last'.wid].geom[3], models'[last'.wid].geom[4]>>,
                     IF last'.rc >= 1 THEN last'.rc - 1 ELSE 0) \in out'
          /\ \A m \in out' : m.type = "resize" =>
                 (m.to # last'.src /\ m.to \in window_sources /\ m.wid = last'.wid)
          /\ Cardinality({m \in out' : m.type = "resize"})
                 = Cardinality(window_sources) - 1]_vars

C6_Witness ==
    /\ last.op = "configure"
    /\ last.dm
    /\ last.rc = 2
    /\ last.src = ui_driver
    /\ Cardinality(window_sources) >= 2
    /\ \E s \in window_sources \ {last.src} :
           Msg("resize", s, last.wid,
               <<0, 0, models[last.wid].geom[3], models[last.wid].geom[4]>>, 1) \in out

\* the live damage timers of wid
DamageTimers(live, wid) == {t \in live : t.fn = "damage" /\ t.wid = wid}

\* C7: however many schedule_configure_damage(wid) calls were folded into
\* the pending timer, a window has at most one damage timer pending; when
\* it fires for a registered, managed window exactly one refresh of that
\* window is requested, no timer and no entry for wid is left, and the next
\* schedule call starts a new timer.
C7_OneRefreshPerCoalescedTimer ==
    [][/\ \A w \in Wids :
              /\ Cardinality(DamageTimers(timeouts', w)) <= 1
              /\ (DamageTimers(timeouts', w) # {}) => w \in DOMAIN configure_damage_timers'
       /\ (/\ last'.op = "damage"
           /\ last'.wid \in DOMAIN id_to_window
           /\ last'.wid \in managed)
          => /\ out' = {Msg("refresh", 0, last'.wid, NoRect, 0)}
             /\ last'.wid \notin DOMAIN configure_damage_timers'
             /\ DamageTimers(timeouts', last'.wid) = {}
       /\ (/\ last'.op = "configure"
           /\ last'.n = 1
           /\ last'.wid \notin DOMAIN configure_damage_timers)
          => /\ last'.wid \in DOMAIN configure_damage_timers'
             /\ Cardinality(timeouts') = Cardinality(timeouts) + 1
             /\ \E t \in DamageTimers(timeouts', last'.wid) \ timeouts : t.n = 1
       /\ (/\ last'.op = "configure"
           /\ last'.n = 1
           /\ last'.wid \in DOMAIN configure_damage_timers)
          => /\ configure_damage_timers' = configure_damage_timers
             /\ Cardinality(timeouts') = Cardinality(timeouts)]_vars

C7_Witness ==
    /\ last.op = "damage"
    /\ last.n >= 2
    /\ last.wid \in DOMAIN id_to_window
    /\ last.wid \in managed
    /\ out = {Msg("refresh", 0, last.wid, NoRect, 0)}
    /\ last.wid \notin DOMAIN configure_damage_timers

\* C8: after _lost_window(wid) no damage timer is pending for wid, and none
\* is ever pending for a window id that has left the registry, so no timer
\* callback requests a refresh of it; after cancel_all_configure_damage no
\* damage timer is pending at all; cancelling for a wid with no pending
\* timer changes nothing.
C8_RemovalCancelsDamageTimer ==
    [][/\ \A t \in timeouts' :
              t.fn = "damage" => /\ t.wid \in DOMAIN id_to_window'
                                 /\ t.wid \in DOMAIN configure_damage_timers'
                                 /\ configure_damage_timers'[t.wid] = t.id
       /\ DOMAIN configure_damage_timers' \subseteq DOMAIN id_to_window'
       /\ last'.op = "lost"
          => /\ last'.wid \notin DOMAIN configure_damage_timers'
             /\ DamageTimers(timeouts', last'.wid) = {}
       /\ (last'.op = "lost" /\ last'.wid \notin DOMAIN configure_damage_timers)
          => UNCHANGED <<configure_damage_timers, timeouts>>
       /\ (last'.op = "damage" /\ out' # {})
          => last'.wid \in DOMAIN id_to_window'
       /\ last'.op = "cleanup"
          => /\ configure_damage_timers' = << >>
             /\ \A t \in timeouts' : t.fn # "damage"]_vars

C8_Witness ==
    /\ last.op = "lost"
    /\ last.n = 1
    /\ last.wid \notin DOMAIN id_to_window
    /\ DamageTimers(timeouts, last.wid) = {}
    /\ timeouts # {}

\* C9: a focus request for wid 0 leaves get_focus() = 0, whatever had the
\* focus before.
C9_FocusRootResets ==
    [][(last'.op = "focus" /\ last'.wid = 0) => get_focus' = 0]_vars

C9_Witness ==
    /\ last.op = "focus"
    /\ last.wid = 0
    /\ last.pre # 0
    /\ get_focus = 0

\* C10: a focus request for a registered override-redirect window leaves
\* get_focus() as it was before the request.
C10_FocusOverrideRedirectKeepsFocus ==
    [][(/\ last'.op = "focus"
        /\ last'.wid \in DOMAIN id_to_window
        /\ id_to_window[last'.wid] = "or")
       => get_focus' = get_focus]_vars

C10_Witness ==
    /\ last.op = "focus"
    /\ last.wid \in DOMAIN id_to_window
    /\ id_to_window[last.wid] = "or"
    /\ last.wid \in managed
    /\ last.pre # 0
    /\ get_focus = last.pre

\* C11 as stated: a focus request for a wid that is missing from the
\* registry, or that names a registered window which is no longer managed,
\* leaves get_focus() = 0.
C11_MissingOrUnmanagedResets ==
    [][(/\ last'.op = "focus"
        /\ (last'.wid \notin DOMAIN id_to_window \/ last'.wid \notin managed))
       => get_focus' = 0]_vars

\* C11 amended: a focus request for a wid that is missing from the registry
\* and is not the focused id leaves get_focus() = 0; a request for a
\* registered window that is no longer managed, or for the id that already
\* has the focus (registered or not), leaves get_focus() as it was.
C11_MissingResetsUnmanagedKeeps ==
    [][last'.op = "focus"
       => /\ (last'.wid \notin DOMAIN id_to_window /\ last'.wid # get_focus)
             => get_focus' = 0
          /\ (last'.wid \in DOMAIN id_to_window /\ last'.wid \notin managed)
             => get_focus' = get_focus
          /\ last'.wid = get_focus => get_focus' = get_focus]_vars

C11_Witness ==
    /\ last.op = "focus"
    /\ last.wid # 0
    /\ last.wid \notin DOMAIN id_to_window
    /\ last.pre # 0
    /\ last.pre # last.wid
    /\ get_focus = 0

\* C12: in every reachable state the focused id is 0 or the id of a window
\* currently in the registry: it does not keep naming a window that has
\* been removed.  (The claim also asks for that window to be a Normal one.)
C12_FocusedIdIsRegistered ==
    get_focus = 0 \/ get_focus \in DOMAIN id_to_window

\* the focused window has been removed and still is the focused id
C12_Witness ==
    /\ last.op = "lost"
    /\ last.wid = get_focus
    /\ get_focus \notin DOMAIN id_to_window

NormalWindows(reg) == {w \in DOMAIN reg : reg[w] = "normal"}

\* C14: a Desktop-state entry exists for exactly the Normal windows in the
\* registry; admitting a Normal window creates its entry hidden, with
\* counter 0 and the window's geometry; admitting an override-redirect or
\* tray window creates none; removing a window destroys its entry.
C14_DesktopStateIffRegisteredNormal ==
    [][/\ DOMAIN models' = NormalWindows(id_to_window')
       /\ \A w \in DOMAIN models' \ DOMAIN models :
              /\ last'.op = "add"
              /\ last'.wid = w
              /\ models'[w] = [geom |-> last'.rect, resize_counter |-> 0, shown |-> FALSE]
       /\ \A w \in DOMAIN models \ DOMAIN models' :
              last'.op = "lost" /\ last'.wid = w]_vars

C14_Witness ==
    /\ last.op = "lost"
    /\ last.rect # NoRect
    /\ last.wid \notin DOMAIN models
    /\ last.wid \notin DOMAIN id_to_window
    /\ \E w \in DOMAIN id_to_window : id_to_window[w] \in {"or", "tray"}
    /\ DOMAIN models = {}

\* C15 as stated: while no driver is set, a map-window or configure-window
\* packet for a window in the registry makes its sender the driver; while a
\* driver is set, no map, configure or unmap packet changes the driver.
C15_FirstPacketElectsDriver ==
    [][/\ (/\ last'.op \in {"map", "configure"}
           /\ last'.wid \in DOMAIN id_to_window
           /\ ui_driver = 0)
          => ui_driver' = last'.src
       /\ (last'.op \in {"map", "configure", "unmap"} /\ ui_driver # 0)
          => ui_driver' = ui_driver]_vars

\* the packet reaches the election: a configure-window packet for a window
\* in the registry, or a map-window packet for one that is not
\* override-redirect
ReachesElection ==
    /\ last'.op \in {"map", "configure"}
    /\ last'.wid \in DOMAIN id_to_window
    /\ (last'.op = "map" => id_to_window[last'.wid] # "or")

\* C15 amended: the driver is one viewer or none; while none is set, a
\* configure-window packet for a registered window, or a map-window packet
\* for a registered window that is not override-redirect, makes its sender
\* the driver, and no other map, configure or unmap packet sets one; while
\* a driver is set, no map, configure or unmap packet changes it.
C15_ElectionOnFirstAcceptedPacket ==
    [][/\ ui_driver' \in {0} \cup Sources
       /\ (ReachesElection /\ ui_driver = 0) => ui_driver' = last'.src
       /\ (/\ last'.op \in {"map", "configure", "unmap"}
           /\ ~ReachesElection
           /\ ui_driver = 0)
          => ui_driver' = 0
       /\ (last'.op \in {"map", "configure", "unmap"} /\ ui_driver # 0)
          => ui_driver' = ui_driver]_vars

C15_Witness ==
    /\ last.op \in {"map", "configure"}
    /\ last.wid \in DOMAIN id_to_window
    /\ Cardinality(window_sources) = 2
    /\ ui_driver # 0
    /\ ui_driver # last.src

\* ------------------------------------------------------ screen negotiator
\* the last handler was set_screen_size and it computed a best resolution
Negotiated == last'.op = "set_screen_size" /\ last'.negotiated # NoSize

SizeSet(sizes) == {sizes[i] : i \in DOMAIN sizes}

\* the resolutions that satisfy the policy for the desired size d
AcceptableSizes(sizes, d, bigger) ==
    {s \in SizeSet(sizes) :
        IF bigger THEN s[1] >= d[1] /\ s[2] >= d[2]
        ELSE s[1] <= d[1] /\ s[2] <= d[2]}

Distance(d, s) == Abs(d[1] * d[2] - s[1] * s[2])

\* the desired size was neither supported nor added by the last handler
NotSupportedNotAdded ==
    /\ Negotiated
    /\ ~InSeq(last'.desired, last'.sizes)
    /\ randr_sizes_added' = randr_sizes_added
    /\ randr

\* C16: when the resolution negotiated equals the current root resolution and
\* the Xinerama layout did not change, set_screen_size makes no backend call
\* that sets a resolution, leaves the root resolution alone and returns it.
C16_UnchangedIsNoOp ==
    [][(Negotiated /\ last'.negotiated = root_size /\ ~last'.xinerama_changed)
        => /\ last'.calls = << >>
           /\ last'.ret = root_size
           /\ root_size' = root_size]_vars

C16_Witness ==
    /\ last.op = "set_screen_size"
    /\ last.negotiated = last.root
    /\ last.desired # last.root
    /\ ~last.xinerama_changed
    /\ last.calls = << >>
    /\ root_size = last.root

\* the calls are one switch to a supported resolution other than `size',
\* followed by switching to `size' and by nothing else
RoundTrip(calls, sizes, size) ==
    /\ Len(calls) >= 2
    /\ calls[1].call = "set_screen_size"
    /\ calls[1].size # size
    /\ InSeq(calls[1].size, sizes)
    /\ calls[2] = RandRCall("set_screen_size", size)
    /\ \A i \in 2..Len(calls) : calls[i].size = size
    /\ Cardinality({i \in DOMAIN calls : calls[i].call = "set_screen_size"}) = 2

\* C17 as stated: when the resolution negotiated equals the current one but
\* the Xinerama layout changed, set_screen_size makes exactly one temporary
\* switch to a different supported resolution and then one switch back.
C17_LayoutChangeRoundTrip ==
    [][(Negotiated /\ last'.negotiated = root_size /\ last'.xinerama_changed)
        => RoundTrip(last'.calls, last'.sizes \o randr_sizes_added', last'.negotiated)]_vars

\* C17 amended: the round trip is made when a supported resolution other than
\* the negotiated one exists; when there is none, set_screen_size only
\* switches to the negotiated resolution, with no temporary switch before it.
C17_RoundTripWhenAnotherSizeExists ==
    [][(Negotiated /\ last'.negotiated = root_size /\ last'.xinerama_changed)
        => LET sizes == last'.sizes \o randr_sizes_added'
               size == last'.negotiated
           IN  IF SizeSet(sizes) \ {size} # {}
               THEN RoundTrip(last'.calls, sizes, size)
               ELSE /\ last'.calls # << >>
                    /\ \A i \in DOMAIN last'.calls : last'.calls[i].size = size
                    /\ Cardinality({i \in DOMAIN last'.calls :
                            last'.calls[i].call = "set_screen_size"}) = 1]_vars

C17_Witness ==
    /\ last.op = "set_screen_size"
    /\ last.negotiated = last.root
    /\ last.xinerama_changed
    /\ last.tmp # NoSize
    /\ last.tmp # last.negotiated
    /\ Len(last.calls) >= 2

\* C18: with the prefer-bigger policy, a desired size that is not supported
\* and was not added, and at least one supported resolution at least as wide
\* and as high as the desired one, the resolution negotiated is one of those
\* and none of them is nearer to the desired size in area.
C18_BiggerTakesNearestAcceptable ==
    [][(NotSupportedNotAdded /\ last'.bigger
        /\ AcceptableSizes(last'.sizes, last'.desired, TRUE) # {})
        => /\ last'.negotiated \in AcceptableSizes(last'.sizes, last'.desired, TRUE)
           /\ \A s \in AcceptableSizes(last'.sizes, last'.desired, TRUE) :
                 Distance(last'.desired, last'.negotiated) <= Distance(last'.desired, s)]_vars

C18_Witness ==
    /\ last.op = "set_screen_size"
    /\ last.bigger
    /\ last.desired = <<1200, 900>>
    /\ SizeSet(last.sizes) = {<<1024, 768>>, <<1280, 1024>>, <<1920, 1080>>}
    /\ last.sizes[1] = <<1920, 1080>>
    /\ last.negotiated = <<1280, 1024>>

\* C19: when no supported resolution satisfies the policy, the resolution
\* negotiated is a supported one that no other supported one beats in nearness
\* of area to the desired size; with no supported resolution at all it is the
\* current root resolution.
C19_FallbackTakesNearestOfAll ==
    [][(NotSupportedNotAdded
        /\ AcceptableSizes(last'.sizes, last'.desired, last'.bigger) = {})
        => IF last'.sizes = << >>
           THEN last'.negotiated = root_size
           ELSE /\ InSeq(last'.negotiated, last'.sizes)
                /\ \A s \in SizeSet(last'.sizes) :
                      Distance(last'.desired, last'.negotiated)
                          <= Distance(last'.desired, s)]_vars

C19_Witness ==
    /\ last.op = "set_screen_size"
    /\ last.negotiated # NoSize
    /\ Len(last.sizes) >= 2
    /\ ~InSeq(last.desired, last.sizes)
    /\ AcceptableSizes(last.sizes, last.desired, last.bigger) = {}
    /\ InSeq(last.negotiated, last.sizes)
    /\ last.negotiated # last.sizes[1]

\* the desktop sizes of the viewers of the last aggregation
SizedClients(sss) == {sss[i].desktop_size : i \in DOMAIN sss} \ {NoSize}

SetMax(S) == CHOOSE x \in S : \A y \in S : x >= y
SetMin(S) == CHOOSE x \in S : \A y \in S : x <= y

\* the size handed to set_screen_size is the aggregate of the viewers' sizes
\* wherever every viewer's width and height is positive
AggregateOf(sss, d, bigger) ==
    LET ws == {s[1] : s \in SizedClients(sss)}
        hs == {s[2] : s \in SizedClients(sss)}
    IN  /\ bigger => d = <<SetMax(ws), SetMax(hs)>>
        /\ (~bigger /\ ws \ {0} # {}) => d[1] = SetMin(ws \ {0})
        /\ (~bigger /\ hs \ {0} # {}) => d[2] = SetMin(hs \ {0})

\* C20: the desired size handed to the negotiation is the component-wise
\* maximum of the UI viewers' desktop sizes under the bigger policy and the
\* component-wise minimum of their non-zero widths and heights under the
\* smaller policy; with exactly one UI viewer it is that viewer's size.
C20_DesiredIsAggregate ==
    [][(last'.op = "configure_best_screen_size" /\ last'.handed)
        => /\ AggregateOf(last'.sss, last'.desired, last'.bigger)
           /\ Len(last'.sss) = 1 => last'.desired = last'.sss[1].desktop_size]_vars

C20_Witness ==
    /\ last.op = "configure_best_screen_size"
    /\ last.handed
    /\ Len(last.sss) = 1
    /\ ~last.bigger
    /\ last.sss[1].desktop_size = <<0, 600>>
    /\ last.desired = <<min_wh_start, 600>>

\* ------------------------------------------------------------------ grabs
\* the messages of one type, one for each attached window source
OneEach(msgs, type) ==
    /\ \A m \in msgs : m.type = type /\ m.to \in window_sources
    /\ \A s \in window_sources : Cardinality({m \in msgs : m.to = s}) = 1

\* C30: a grab or ungrab signal that changes the grabbed id sends exactly one
\* pointer-grab (pointer-ungrab when the id becomes 0) notification to each
\* attached window source, and a signal that leaves the grabbed id as it was
\* sends nothing.
C30_GrabChangeNotifiesEachSource ==
    [][(last'.op \in {"grab", "ungrab"})
        => IF has_grab' # has_grab
           THEN OneEach(out', IF has_grab' = 0 THEN "pointer-ungrab" ELSE "pointer-grab")
           ELSE out' = {}]_vars

C30_Witness ==
    /\ last.op = "ungrab"
    /\ last.pre # 0
    /\ last.wid # last.pre
    /\ has_grab = 0
    /\ Cardinality(window_sources) = 2
    /\ Cardinality(out) = 2

\* ------------------------------------------------- wrong-variant packets
\* the last handler was given a packet for a window of the wrong variant
WrongVariant ==
    /\ last'.wid \in DOMAIN id_to_window
    /\ \/ last'.op = "unmap" /\ id_to_window[last'.wid] \in {"or", "tray"}
       \/ last'.op = "configure" /\ ~last'.skip
                                 /\ id_to_window[last'.wid] \in {"or", "tray"}
       \/ last'.op = "map" /\ id_to_window[last'.wid] = "or"

\* C21: a map, configure or unmap packet for a window of the wrong variant is
\* dropped: the handler raises nothing and changes no state (no Desktop
\* state, no driver, no timer) and sends nothing.
C21_WrongVariantDropped ==
    [][WrongVariant
        => /\ ~last'.err
           /\ out' = {}
           /\ UNCHANGED <<models, ui_driver, timervars>>]_vars

C21_Witness ==
    /\ last.op = "unmap"
    /\ last.wid \in DOMAIN id_to_window
    /\ id_to_window[last.wid] = "or"
    /\ last.err

\* ---------------------------------------------------- overlarge rectangles
Overlarge(rect) == rect[3] >= or_geometry_limit \/ rect[4] >= or_geometry_limit

\* C22: no rectangle with a width or height of 32768 or more is stored in the
\* Desktop state or sent to a viewer, whether a viewer's map or configure
\* packet reported it or an OverrideRedirect window's geometry change did.
C22_NoOverlargeRectangle ==
    /\ \A w \in DOMAIN models : ~Overlarge(models[w].geom)
    /\ \A m \in out : m.to # 0 => ~Overlarge(m.geom)

C22_Witness ==
    /\ last.op = "configure"
    /\ Overlarge(last.rect)
    /\ last.wid \in DOMAIN models
    /\ Overlarge(models[last.wid].geom)
    /\ \E m \in out : m.type = "resize" /\ m.to # last.src /\ Overlarge(m.geom)

\* ------------------------------------------------------------ map handler
\* the last handler was given a packet of this type for a Normal window
NormalPacket(type) ==
    /\ last'.op = type
    /\ last'.wid \in DOMAIN id_to_window
    /\ id_to_window[last'.wid] = "normal"

\* C23: a map packet for a Normal window applies its geometry and shows the
\* window exactly when the sender is the UI driver (once the election of the
\* packet is done) or the window is hidden; otherwise the window's stored
\* rectangle, shown flag and resize counter stay as they were; in both cases
\* a refresh of the whole area of the packet is requested.
C23_MapAppliesForDriverOrHidden ==
    [][NormalPacket("map")
        => LET w == last'.wid
               applies == ui_driver' = last'.src \/ ~models[w].shown
           IN  /\ last'.dm <=> applies
               /\ applies => models'[w].shown /\ models'[w].geom = last'.rect
               /\ ~applies => models'[w] = models[w]
               /\ Msg("refresh", 0, w, <<0, 0, last'.rect[3], last'.rect[4]>>, 0)
                      \in out']_vars

C23_Witness ==
    /\ last.op = "map"
    /\ last.wid \in DOMAIN models
    /\ last.was_shown
    /\ ~last.dm
    /\ ui_driver # last.src
    /\ models[last.wid].geom # last.rect
    /\ \E m \in out : m.type = "refresh" /\ m.wid = last.wid

\* ----------------------------------------------------- metadata configure
\* C25: a configure packet with skip_geometry set leaves the window's stored
\* rectangle, shown flag and resize counter as they were and sends no
\* corrective resize to any viewer, whoever sent it.
C25_SkipGeometryKeepsRectangle ==
    [][(last'.op = "configure" /\ last'.skip)
        => /\ models' = models
           /\ ~last'.dm
           /\ \A m \in out' : m.type \notin {"resize", "move-resize"}]_vars

C25_Witness ==
    /\ last.op = "configure"
    /\ last.skip
    /\ last.branch
    /\ last.wid \in DOMAIN models
    /\ ~models[last.wid].shown
    /\ models[last.wid].geom[3] # last.rect[3]
    /\ ui_driver = last.src
    /\ Cardinality(window_sources) = 2

\* ---------------------------------------------------------- unmap handler
\* C27: an unmap packet for a shown Normal window sends an unmap notification
\* to every attached window source and leaves the window hidden with its
\* rectangle and resize counter as they were; for a hidden window it sends
\* no notification and changes nothing of the Desktop state.
C27_UnmapHidesAndNotifiesOnce ==
    [][NormalPacket("unmap")
        => LET w == last'.wid
           IN  IF models[w].shown
               THEN /\ OneEach(out', "unmap-window")
                    /\ \A m \in out' : m.wid = w
                    /\ models' = [models EXCEPT ![w].shown = FALSE]
               ELSE out' = {} /\ models' = models]_vars

C27_Witness ==
    /\ last.op = "unmap"
    /\ last.wid \in DOMAIN models
    /\ last.was_shown
    /\ ~models[last.wid].shown
    /\ Cardinality(window_sources) = 2
    /\ Cardinality(out) = 2
    /\ ui_driver # last.src

\* ------------------------------------------------------ corrective resize
\* C26: a configure packet after which the Desktop Manager's stored width and
\* height are what they were before sends no resize to any other viewer.
C26_ResizeOnlyWhenSizeChanged ==
    [][(NormalPacket("configure")
        /\ window_size(models', last'.wid) = window_size(models, last'.wid))
        => \A m \in out' : m.type # "resize"]_vars

C26_Witness ==
    /\ last.op = "configure"
    /\ last.dm
    /\ last.rc > 0
    /\ last.rc < last.pre
    /\ last.wid \in DOMAIN models
    /\ window_size(models, last.wid) # <<last.rect[3], last.rect[4]>>
    /\ \E m \in out : /\ m.type = "resize"
                      /\ m.to # last.src
                      /\ <<m.geom[3], m.geom[4]>> = <<last.rect[3], last.rect[4]>>

\* ------------------------------------------------------------------ clamp
WithinRoot(rect) ==
    /\ 0 <= rect[1]
    /\ 0 <= rect[2]
    /\ rect[1] + rect[3] <= get_root_window_size[1]
    /\ rect[2] + rect[4] <= get_root_window_size[2]

FitsRoot(rect) ==
    rect[3] <= get_root_window_size[1] /\ rect[4] <= get_root_window_size[2]

\* a map or configure packet for a Normal window was applied with clamping on
ClampedPacket ==
    /\ clamp_window_to_root
    /\ NormalPacket("map") \/ NormalPacket("configure")
    /\ last'.dm

StateApplied ==
    /\ last'.op = "configure"
    /\ last'.sws
    /\ last'.was_shown \/ last'.skip
    /\ last'.wid \in DOMAIN id_to_window

\* the flags of a window whose value the step changed
Toggled(wid) == {k \in Flags : (k \in wm_state[wid]) # (k \in wm_state'[wid])}

C24_ConfigureDamageRule ==
    [][NormalPacket("configure")
        => LET wid == last'.wid
               is_ui_driver == ui_driver' = last'.src
               changed == \/ models'[wid].geom # models[wid].geom
                          \/ models'[wid].shown # models[wid].shown
                          \/ wm_state'[wid] # wm_state[wid]
               same_size == window_size(models, wid)
                                = <<last'.packet[3], last'.packet[4]>>
           IN  /\ (last'.branch /\ changed) => last'.n = 1
               /\ (~is_ui_driver /\ same_size /\ models[wid].shown)
                      => (~last'.branch /\ ~changed /\ last'.n = 1)
               /\ (/\ is_ui_driver
                   /\ last'.packet = models[wid].geom
                   /\ models[wid].shown
                   /\ wm_state'[wid] = wm_state[wid])
                      => last'.n = 0]_vars

\* the driver repeated the stored rectangle of a shown window and changed one
\* window-state flag: a refresh was scheduled
C24_Witness ==
    /\ last.op = "configure"
    /\ last.wid \in DOMAIN id_to_window
    /\ id_to_window[last.wid] = "normal"
    /\ ui_driver = last.src
    /\ last.branch
    /\ last.dm
    /\ last.was_shown
    /\ last.packet = models[last.wid].geom
    /\ last.changes = {"maximized"}
    /\ last.n = 1

\* ---------------------------------------------------------- focus history
\* the step gave the focus to the window of the request
FocusTransferred ==
    /\ last'.op = "focus"
    /\ has_focus' = last'.wid
    /\ has_focus # last'.wid

\* C31: the focus history changes only by the id of a window that has just
\* been given the focus being appended (a request that is rejected or resets
\* the focus appends nothing), and it never holds more entries than its
\* capacity, the oldest being dropped first.
C31_HistoryHoldsFocusedWindows ==
    [][/\ Len(focus_history') <= focus_history_maxlen
       /\ focus_history' # focus_history
              => /\ FocusTransferred
                 /\ focus_history' = deque_append(focus_history, last'.wid)]_vars

\* a focus request for an override-redirect window was rejected and its id is
\* the newest entry of the history
C31_Witness ==
    /\ last.op = "focus"
    /\ last.wid \in DOMAIN id_to_window
    /\ id_to_window[last.wid] = "or"
    /\ has_focus # last.wid
    /\ focus_history # << >>
    /\ focus_history[Len(focus_history)] = last.wid

\* ---------------------------------------------------------------- raising
\* C32 as stated: with always-raise off, the pointer events of one window
\* raise it at most once as long as no focus request for another window, no
\* restack of another window and no new-window event comes between them.
C32_PointerRaisesOnce ==
    [][~always_raise_window => chain'.raises <= 1]_vars

\* C32 amended: the same, as long as no pointer event of another window comes
\* between them either; a pointer event of another window raises that window
\* and the next pointer event of the first one raises it again.
C32_PointerRaisesOnceUntilAnotherPointed ==
    [][~always_raise_window => chain'.strict <= 1]_vars

\* a second pointer event of the followed window that raised nothing
C32_Witness ==
    /\ ~always_raise_window
    /\ last.op = "move_pointer"
    /\ last.wid = FollowedWid
    /\ last.n = 0
    /\ last_raised = FollowedWid
    /\ chain # NoChain
    /\ chain.strict = 1

\* --------------------------------------------------- prefer-smaller policy
\* C33: under the prefer-smaller policy, when the desired size is not
\* supported and some supported resolution is no wider and no higher than it,
\* the resolution negotiated is one of those and none of them is nearer to the
\* desired size in area.
C33_SmallerTakesNearestAcceptable ==
    [][(NotSupportedNotAdded /\ ~last'.bigger
        /\ AcceptableSizes(last'.sizes, last'.desired, FALSE) # {})
        => /\ last'.negotiated \in AcceptableSizes(last'.sizes, last'.desired, FALSE)
           /\ \A s \in AcceptableSizes(last'.sizes, last'.desired, FALSE) :
                 Distance(last'.desired, last'.negotiated) <= Distance(last'.desired, s)]_vars

\* a resolution as wide as the desired size and less high was passed over for
\* a smaller one
C33_Witness ==
    /\ last.op = "set_screen_size"
    /\ ~last.bigger
    /\ last.desired = <<1280, 1100>>
    /\ SizeSet(last.sizes) = {<<1024, 768>>, <<1280, 1024>>}
    /\ last.negotiated = <<1024, 768>>

\* ------------------------------------------------------ ownership election
\* a map or configure packet reached DesktopManager.configure_window for a
\* hidden window and the ownership election reported a change
ElectionOnHidden ==
    /\ last'.op \in {"map", "configure"}
    /\ last'.dm
    /\ ~last'.was_shown
    /\ last'.election

\* C34: DesktopManager.configure_window on a hidden window whose ownership
\* election reports a change shows the window and leaves its stored rectangle
\* as it was before the call.
C34_ElectionDiscardsRectangle ==
    [][ElectionOnHidden
        => /\ models'[last'.wid].shown
           /\ models'[last'.wid].geom = models[last'.wid].geom]_vars

\* the election reported a change, the backend was not asked to recalculate
\* the geometry and the stored rectangle is the one of the packet
C34_Witness ==
    /\ last.op = "configure"
    /\ last.dm
    /\ ~last.was_shown
    /\ last.election
    /\ last.packet = <<0, 0, 2, 1>>
    /\ last.wid \in DOMAIN models
    /\ models[last.wid].geom = <<0, 0, 2, 1>>
    /\ models[last.wid].shown
    /\ \A m \in out : m.type # "recalculate"

\* ---------------------------------------------------------- resize counter
MoveResizes(wid) == {m \in out' : m.type = "move-resize" /\ m.wid = wid}

\* no window's resize counter decreases
CounterNeverDecreases ==
    \A w \in DOMAIN models \cap DOMAIN models' :
        models'[w].resize_counter >= models[w].resize_counter

\* a notification of size_notify_clients bumps the counter by one and sends
\* the new value, with the stored geometry, to every window source
NotificationBumpsByOne ==
    (last'.op \in {"size_notify", "resized"} /\ MoveResizes(last'.wid) # {})
        => /\ models'[last'.wid].resize_counter = models[last'.wid].resize_counter + 1
           /\ MoveResizes(last'.wid)
                  = {Msg("move-resize", s, last'.wid, models'[last'.wid].geom,
                         models'[last'.wid].resize_counter) : s \in window_sources'}

\* C35 as stated: a window's resize counter never decreases, each
\* notification of size_notify_clients raises it by exactly one and sends the
\* new value to every window source, and every move-resize sent for a window
\* carries a counter above the one of the move-resize sent for it before.
C35_CountersStrictlyIncrease ==
    [][/\ CounterNeverDecreases
       /\ NotificationBumpsByOne
       /\ \A m \in MoveResizes(FollowedWid) :
              chain.len = 1 => m.counter > chain.rc]_vars

\* C35 amended: the counter never decreases; a notification of
\* size_notify_clients raises it by one and sends the new stored value to
\* every window source, so these notifications carry strictly increasing
\* counters; the move-resize of a clamped packet also raises the counter by
\* one but carries the larger of the packet's counter and the new value.
C35_NotificationsCarryStoredCounter ==
    [][/\ CounterNeverDecreases
       /\ NotificationBumpsByOne
       /\ \A m \in MoveResizes(FollowedWid) :
              last'.op \in {"map", "configure"}
                  => /\ models'[FollowedWid].resize_counter
                            = models[FollowedWid].resize_counter + 1
                     /\ m.counter = Max(last'.rc, models'[FollowedWid].resize_counter)]_vars

\* the second notification of a window, sent to two viewers
C35_Witness ==
    /\ last.op = "size_notify"
    /\ Cardinality(window_sources) = 2
    /\ FollowedWid \in DOMAIN models
    /\ models[FollowedWid].resize_counter = 2
    /\ {m.to : m \in {n \in out : n.type = "move-resize" /\ n.counter = 2}} = window_sources

\* ------------------------------------------------------ clamped placement
\* C36: when a map or configure packet makes the server send its sender a
\* clamped move-resize, the rectangle stored for the window after the handler
\* is the clamped rectangle that was sent.
C36_StoredIsClampedRectangle ==
    [][\A m \in MoveResizes(FollowedWid) :
           last'.op \in {"map", "configure"}
               => models'[FollowedWid].geom = m.geom]_vars

\* the sender was told the clamped rectangle and another one is stored
C36_Witness ==
    /\ clamp_window_to_root
    /\ last.op = "configure"
    /\ last.packet = <<2, 0, 1, 1>>
    /\ FollowedWid \in DOMAIN models
    /\ models[FollowedWid].geom = <<0, 0, 1, 1>>
    /\ \E m \in out : /\ m.type = "move-resize"
                      /\ m.to = last.src
                      /\ m.geom = <<1, 0, 1, 1>>

\* --------------------------------------------------- ungrab notifications
\* C38: every pointer-ungrab notification names the window id that held the
\* grab just before the ungrab, never another id and never -1.
C38_UngrabNamesGrabbedWindow ==
    [][\A m \in out' :
           m.type = "pointer-ungrab" => (m.wid = has_grab /\ m.wid # None)]_vars

\* a window that did not hold the grab signalled the ungrab and the viewers
\* were given its id
C38_Witness ==
    /\ last.op = "ungrab"
    /\ last.pre # 0
    /\ has_grab = 0
    /\ \E m \in out : m.type = "pointer-ungrab" /\ m.wid # last.pre /\ m.wid = last.wid

\* -------------------------------------------------------- show all windows
\* C39: whatever windows are registered, show-all-windows completes without
\* an error and every registered Normal window is shown afterwards.
C39_ShowAllShowsEveryNormalWindow ==
    [][last'.op = "show_all"
        => /\ ~last'.err
           /\ \A w \in DOMAIN id_to_window :
                  id_to_window[w] = "normal" => models'[w].shown]_vars

\* the command failed on a window that is not Normal and left a Normal window
\* hidden
C39_Witness ==
    /\ last.op = "show_all"
    /\ last.err
    /\ \E w \in DOMAIN id_to_window :
           id_to_window[w] = "normal" /\ ~models[w].shown

\* ------------------------------------------------------ attach and windows
\* C40: an attach without sharing leaves every managed Normal window hidden,
\* an attach with sharing changes no shown flag, and neither changes a stored
\* rectangle or a resize counter.
C40_AttachHidesWithoutSharing ==
    [][last'.op = "attach"
        => /\ DOMAIN models' = DOMAIN models
           /\ \A w \in DOMAIN models :
                  /\ models'[w].geom = models[w].geom
                  /\ models'[w].resize_counter = models[w].resize_counter
                  /\ last'.skip => models'[w].shown = models[w].shown
           /\ ~last'.skip
                  => \A w \in DOMAIN id_to_window :
                         (id_to_window[w] = "normal" /\ w \in managed)
                             => ~models'[w].shown]_vars

\* a viewer attached without sharing while a managed Normal window that had
\* been moved by the backend was shown
C40_Witness ==
    /\ last.op = "attach"
    /\ ~last.skip
    /\ last.was_shown
    /\ \E w \in managed \cap DOMAIN models :
           /\ ~models[w].shown
           /\ models[w].resize_counter > 0
           /\ window_geometry(models, w) = <<1, 0, 1, 1>>

\* ------------------------------------------------- notification liveness
\* the backend has moved the shown window w and its notification is pending
MovePending(w) ==
    /\ last.op = "resized"
    /\ last.wid = w
    /\ last.was_shown
    /\ \E t \in timeouts : t.id = snc_timer /\ t.wid = w

\* every viewer has just been sent the stored rectangle of w
MoveNotified(w) ==
    /\ last.op = "size_notify"
    /\ last.wid = w
    /\ w \in DOMAIN models
    /\ \A ss \in window_sources :
           Msg("move-resize", ss, w, window_geometry(models, w),
               models[w].resize_counter) \in out

\* C37: a backend move of a shown Normal window is eventually followed by a
\* move-resize notification with the window's rectangle, unless the window
\* is removed or a configure packet arrives first; a move of another window
\* in between does not lose it.
C37_BackendMoveIsNotified ==
    \A w \in Wids :
        MovePending(w)
            ~> (MoveNotified(w) \/ w \notin DOMAIN id_to_window \/ last.op = "configure")

\* the backend moved window 1 while it was shown, no notification of it was
\* ever sent and none is pending: the timer now belongs to window 2
C37_Witness ==
    /\ 1 \in DOMAIN models /\ 2 \in DOMAIN models
    /\ models[1].shown
    /\ window_geometry(models, 1) = NotifyRect
    /\ models[1].resize_counter = 0
    /\ last.op = "resized" /\ last.wid = 2
    /\ \A t \in timeouts : t.wid # 1
    /\ \E t \in timeouts : t.id = snc_timer /\ t.wid = 2
====
